---- MODULE Spec2Model ----
(***************************************************************************)
(* Tunnel controllers of src/lib/tunnel.ts: createReverseTunnel            *)
(* (P2P -> local TCP service) and createForwardTunnel (local TCP listener  *)
(* -> P2P peer).  One controller is modelled; Init chooses its mode and    *)
(* whether the DHT node was supplied by the caller.  Every action is one   *)
(* event-handler invocation (or one promise continuation) of the           *)
(* single-threaded event loop; the continuation of awaitOpen(peer) is a     *)
(* step of its own, taken some time after the 'open' event resolved the    *)
(* promise.  The caller has registered an 'error' listener on the          *)
(* controller, as registerShutdown and the gateway do right after the      *)
(* factory resolves.                                                       *)
(*                                                                         *)
(* Socket states: "none" (not created), "connecting" (net.connect in       *)
(* flight), "opening" (node.connect handshake in flight), "open",          *)
(* "closing" (destroyed or ended, 'close' event not yet delivered),        *)
(* "closed" ('close' event delivered).                                     *)
(*                                                                         *)
(* Spec is the controller once its factory has returned; ErrSpec adds the  *)
(* 'error' events of its server, ListenSpec starts at the call of the      *)
(* factory, when no listener can be registered on the controller yet.      *)
(* PoolSpec is the peer pool of createPeerPool, with the calls             *)
(* its callers may make (acquire, release, close) and the events of its    *)
(* sockets and idle timers; the part of acquire after `await               *)
(* awaitOpen(socket)` is a step of its own.  The tunnel variables stay as  *)
(* they are in the pool's steps, and the pool variables in the tunnel's.   *)
(*                                                                         *)
(* ShutdownSpec is a controller inside the process of a command: the       *)
(* command calls registerShutdown, signals arrive, and every event the     *)
(* controller emits is delivered to the listeners registered on it in the  *)
(* step that follows its emission, before anything else runs.  There the   *)
(* controller is closed by shutdown() only.  In the other specifications   *)
(* the process variables stay as they are.                                 *)
(*                                                                         *)
(* GatewaySpec is the tunnel endpoint pool of the gateway command          *)
(* (createTunnelEndpointPool) with the requests of its HTTP handler: each  *)
(* request acquires the endpoint of its key and releases it once.  A       *)
(* controller stands for a whole forward tunnel there; of its life only    *)
(* the factory's resolution, its 'error' events and the call of its        *)
(* close() matter to the pool.                                             *)
(*                                                                         *)
(* BeamSpec is one Beam (beam.ts) in server or client mode with the        *)
(* sockets that connect to it, the hooks the stream library calls          *)
(* (_open, _read, _write, destroy with _predestroy, _destroy) and the      *)
(* events of the sockets; _final is left out.                              *)
(***************************************************************************)
EXTENDS Integers, FiniteSets, Sequences, TLC

MaxSessions == 2
MaxCloseCalls == 2
MaxServerErrors == 2
MaxKeys == 2
MaxSockets == 2
MaxDestroyCalls == 2
MaxAcquireErrors == 1
MaxPoolCloseCalls == 2
MaxRequests == 3
MaxEndpointCloseCalls == 2
MaxBeamSockets == 3
MaxChunks == 2

\* Port range (MIN_PORT, MAX_PORT of lib/dht.ts).
EXIT_FAILURE == 1
EXIT_SUCCESS == 0
FIRST_ACTIVE_CONNECTION == 1
NO_ACTIVE_CONNECTIONS == 0
MIN_PORT == 1
MAX_PORT == 65535

Sessions == 1..MaxSessions

\* Remote public keys, and the sockets node.connect can hand to the pool;
\* Foreign is a socket the pool did not create.
Keys == 1..MaxKeys
PoolSockets == 1..MaxSockets
AllSockets == 0..MaxSockets
Requests == 1..MaxRequests
BeamSockets == 1..MaxBeamSockets
Foreign == CHOOSE s \in AllSockets : s \notin PoolSockets

VARIABLES
    mode,              \* "reverse" | "forward": which factory built the controller
    dhtSupplied,       \* options.dht !== undefined
    closed,            \* let closed
    connections,       \* let connections
    peers,             \* const peers = new Set<EncryptedSocket>()
    tcpSockets,        \* const tcpSockets = new Set<net.Socket>()
    local,             \* state of the session's net.Socket
    peer,              \* state of the session's EncryptedSocket
    connected,         \* let connected (per connection closure)
    disconnected,      \* let disconnected (per connection closure)
    opened,            \* promise returned by awaitOpen(peer) and its continuation
    flowing,           \* the local socket is being read (not paused)
    piped,             \* pipeBothWays(local, peer) was called
    read,              \* when bytes were first read from the local socket
    nConnect,          \* 'connect' events emitted for the session
    nDisconnect,       \* 'disconnect' events emitted for the session
    connectPayload,    \* activeConnections of the session's 'connect' event, -1 before it
    disconnectPayload, \* activeConnections of the session's 'disconnect' event, -1 before it
    nError,            \* 'error' events emitted on behalf of the session
    late,              \* the session arrived after close() had been called
    raced,             \* close() was called while the session was in its dial
    dialFailed,        \* the reverse session's net.connect failed
    closeSeen,         \* a leg's 'close' was delivered after 'connect' was emitted
    closePc,           \* position of the first close() call
    closeCalls,        \* number of close() calls made
    serverCloseCalls,  \* calls of server.close() / tcpServer.close()
    nodeDestroyCalls,  \* calls of node.destroy()
    teardownFailures,  \* rejected server.close() / node.destroy() promises
    closeRejected,     \* some close() call rejected
    listen,            \* the factory's `await` on server.listen / tcpServer.listen
    requestedPort,     \* options.port of a forward tunnel
    boundPort,         \* port of tcpServer.address() once bound
    serverErrors,      \* 'error' events relayed from server / tcpServer
    poolClosed,        \* peer pool: let closed
    socketsByKey,      \* peer pool: the Map, per key the list of pooled sockets
    mapKeys,           \* peer pool: the keys the Map has a list for
    sockets,           \* state of every socket the pool has to do with
    entryKey,          \* entry.key: the key a socket was connected for
    busy,              \* entry.busy
    idleTimer,         \* entry.idleTimer is set and has neither fired nor been cleared
    pendingTimers,     \* setTimeout callbacks of the entry that are still to run
    due,               \* idleTimeoutMs have passed since a pending timer was set
    createPc,          \* position of the createEntry call that made the socket
    holds,             \* times the socket was returned by acquire since its last release
    givenFor,          \* key of the acquire call that last returned the socket
    destroyCalls,      \* calls of socket.destroy() made by the pool
    evicted,           \* the idle timer of the socket has fired
    acquireErrors,     \* acquire calls that threw 'Peer pool is closed'
    poolCloseCalls,    \* calls of close() of the pool
    reused,            \* the socket was returned by acquire from the map
    closedWith,        \* sockets that were in the map when close() ran
    lateReleased,      \* the socket was released after close()
    gone,              \* the 'close' or 'error' listener of the entry has run
    windowPassed,      \* idleTimeoutMs have passed since the last release of the waiting entry
    registered,        \* registerShutdown(tunnel, spinner) was called
    shuttingDown,      \* registerShutdown: let shuttingDown
    spinnerStopped,    \* registerShutdown: let spinnerStopped
    armed,             \* the process.once listener of the signal is still registered
    closeRequests,     \* tunnel.close() calls that shutdown() has reached
    pendingExit,       \* exit codes of the shutdown() calls waiting for close()
    proc,              \* "running", or how the process ended
    exitCode,          \* the argument of process.exit, -1 before the call
    statusLines,       \* what writeInline / endInline wrote
    hConnect,          \* 'connect' events delivered to the listeners
    hDisconnect,       \* 'disconnect' events delivered to the listeners
    hError,            \* 'error' events delivered to the listeners
    lastError,         \* the Error of the last 'error' event delivered
    endpoints,         \* gateway: the Map, per key the request whose controller its endpoint holds, 0 for none
    endpointOrder,     \* gateway: the keys of the Map in insertion order
    endpointsClosed,   \* gateway: let closed of the endpoint pool
    endpointTimer,     \* gateway: endpoint.idleTimer is set and has neither fired nor been cleared
    controllerPc,      \* gateway: the createForwardTunnel call made by the request's acquire
    controllerClosed,  \* gateway: controller.close() was called on the controller the request created
    reqPc,             \* gateway: position of the request in its handler
    reqKey,            \* gateway: the remote key of the request, 0 before it is known
    reqEndpoint,       \* gateway: the request whose controller's port acquire returned, 0 for none
    endpointClosePc,   \* gateway: position of the first close() call of the endpoint pool
    closeIndex,        \* gateway: entries of the Map the loop of close() has passed
    endpointCloseCalls,\* gateway: calls of close() of the endpoint pool
    idleFired,         \* gateway: the idle timer of the endpoint has fired
    announce,          \* Beam: this.announce, server (TRUE) or client (FALSE) mode
    beamOpenPc,        \* Beam: position of _open: its await and the continuation of it
    server,            \* Beam: this.server and the state of its listen
    beamSocket,        \* Beam: state of every encrypted socket the beam has to do with
    handled,           \* Beam: sockets handleConnection has been called with
    outbound,          \* Beam: this.outbound, 0 for undefined
    inbound,           \* Beam: this.inbound, 0 for undefined
    openCallback,      \* Beam: this.openCallback is set
    openResults,       \* Beam: the arguments the streamx open callback was invoked with
    connectedEmits,    \* Beam: 'connected' events emitted
    delivered,         \* Beam: 'data' events the socket has emitted
    pushed,            \* Beam: chunks of the socket pushed into the stream
    endPushes,         \* Beam: end-of-stream markers pushed into the stream
    ended,             \* Beam: the socket has emitted 'end'
    paused,            \* Beam: socket.pause() was called and resume() was not yet
    readCallback,      \* Beam: this.readCallback is set
    readTicks,         \* Beam: queueTick callbacks of pushData still to run
    drainCallback,     \* Beam: this.drainCallback is set
    beamDestroyed,     \* Beam: destroy() was called on the stream
    destroyPc,         \* Beam: position of the _destroy hook
    firstData          \* Beam: the socket whose 'data' event was delivered first, 0 for none

sessionVars == <<local, peer, connected, disconnected, opened, flowing, piped, read>>
eventVars == <<nConnect, nDisconnect, nError, connectPayload, disconnectPayload>>
historyVars == <<late, raced, dialFailed, closeSeen>>
closeVars == <<closePc, closeCalls, serverCloseCalls, nodeDestroyCalls,
               teardownFailures, closeRejected>>
serverVars == <<listen, requestedPort, boundPort, serverErrors>>
tunnelVars == <<mode, dhtSupplied, closed, connections, peers, tcpSockets,
                sessionVars, eventVars, historyVars, closeVars, serverVars>>
entryVars == <<entryKey, busy, idleTimer, pendingTimers, due, createPc>>
callerVars == <<holds, givenFor, destroyCalls, evicted, acquireErrors, poolCloseCalls>>
poolHistory == <<reused, closedWith, lateReleased, gone, windowPassed>>
poolVars == <<poolClosed, socketsByKey, mapKeys, sockets, entryVars, callerVars, poolHistory>>
heardVars == <<hConnect, hDisconnect, hError, lastError>>
shutdownVars == <<registered, shuttingDown, spinnerStopped, armed, closeRequests,
                  pendingExit, proc, exitCode, statusLines, heardVars>>
gatewayVars == <<endpoints, endpointOrder, endpointsClosed, endpointTimer, controllerPc,
                 controllerClosed, reqPc, reqKey, reqEndpoint, endpointClosePc, closeIndex,
                 endpointCloseCalls, idleFired>>
processVars == <<registered, shuttingDown, spinnerStopped, armed, closeRequests,
                 pendingExit, exitCode, statusLines, heardVars>>
beamVars == <<announce, beamOpenPc, server, beamSocket, handled, outbound, inbound,
              openCallback, openResults, connectedEmits, delivered, pushed, endPushes,
              ended, paused, readCallback, readTicks, drainCallback, beamDestroyed,
              destroyPc, firstData>>
vars == <<tunnelVars, poolVars, shutdownVars, gatewayVars, beamVars>>

SocketStates == {"none", "connecting", "opening", "open", "closing", "closed"}

\* socket.destroy(): idempotent, the 'close' event follows later.
Destroy(st) == IF st \in {"connecting", "opening", "open"} THEN "closing" ELSE st

Destroyed(st) == st \in {"closing", "closed"}

\* createPeerPool: an empty map, not closed; nothing was connected yet.
PoolCreated ==
    /\ poolClosed = FALSE
    /\ socketsByKey = [k \in Keys |-> <<>>]
    /\ mapKeys = {}
    /\ sockets = [s \in AllSockets |-> IF s = Foreign THEN "open" ELSE "none"]
    /\ entryKey = [s \in AllSockets |-> 0]
    /\ busy = [s \in AllSockets |-> FALSE]
    /\ idleTimer = [s \in AllSockets |-> FALSE]
    /\ pendingTimers = [s \in AllSockets |-> 0]
    /\ due = [s \in AllSockets |-> FALSE]
    /\ createPc = [s \in AllSockets |-> "none"]
    /\ holds = [s \in AllSockets |-> 0]
    /\ givenFor = [s \in AllSockets |-> 0]
    /\ destroyCalls = [s \in AllSockets |-> 0]
    /\ poolCloseCalls = 0
    /\ evicted = [s \in AllSockets |-> FALSE]
    /\ acquireErrors = 0
    /\ reused = [s \in AllSockets |-> FALSE]
    /\ closedWith = {}
    /\ lateReleased = [s \in AllSockets |-> FALSE]
    /\ gone = [s \in AllSockets |-> FALSE]
    /\ windowPassed = [s \in AllSockets |-> FALSE]

\* The state in which the factory has registered its handlers: no session,
\* no event, close() never called.
Constructed ==
    /\ mode \in {"reverse", "forward"}
    /\ dhtSupplied \in BOOLEAN
    /\ closed = FALSE
    /\ connections = 0
    /\ peers = {}
    /\ tcpSockets = {}
    /\ local = [s \in Sessions |-> "none"]
    /\ peer = [s \in Sessions |-> "none"]
    /\ connected = [s \in Sessions |-> FALSE]
    /\ disconnected = [s \in Sessions |-> FALSE]
    /\ opened = [s \in Sessions |-> "none"]
    /\ flowing = [s \in Sessions |-> FALSE]
    /\ piped = [s \in Sessions |-> FALSE]
    /\ read = [s \in Sessions |-> "none"]
    /\ nConnect = [s \in Sessions |-> 0]
    /\ nDisconnect = [s \in Sessions |-> 0]
    /\ connectPayload = [s \in Sessions |-> -1]
    /\ disconnectPayload = [s \in Sessions |-> -1]
    /\ nError = [s \in Sessions |-> 0]
    /\ late = [s \in Sessions |-> FALSE]
    /\ raced = [s \in Sessions |-> "no"]
    /\ dialFailed = [s \in Sessions |-> FALSE]
    /\ closeSeen = [s \in Sessions |-> FALSE]
    /\ closePc = "idle"
    /\ closeCalls = 0
    /\ serverCloseCalls = 0
    /\ nodeDestroyCalls = 0
    /\ teardownFailures = 0
    /\ closeRejected = FALSE
    /\ serverErrors = 0

\* createTunnelEndpointPool: an empty map, not closed; no request has arrived.
EndpointPoolCreated ==
    /\ endpoints = [k \in Keys |-> 0]
    /\ endpointOrder = <<>>
    /\ endpointsClosed = FALSE
    /\ endpointTimer = [c \in Requests |-> FALSE]
    /\ controllerPc = [c \in Requests |-> "none"]
    /\ controllerClosed = [c \in Requests |-> FALSE]
    /\ reqPc = [r \in Requests |-> "idle"]
    /\ reqKey = [r \in Requests |-> 0]
    /\ reqEndpoint = [r \in Requests |-> 0]
    /\ endpointClosePc = "idle"
    /\ closeIndex = 0
    /\ endpointCloseCalls = 0
    /\ idleFired = [c \in Requests |-> FALSE]

\* new Beam(...): no socket, no callback, nothing emitted; _open not yet called.
BeamConstructed ==
    /\ beamOpenPc = "none"
    /\ server = "none"
    /\ beamSocket = [s \in BeamSockets |-> "none"]
    /\ handled = {}
    /\ outbound = 0
    /\ inbound = 0
    /\ openCallback = FALSE
    /\ openResults = <<>>
    /\ connectedEmits = 0
    /\ delivered = [s \in BeamSockets |-> 0]
    /\ pushed = [s \in BeamSockets |-> 0]
    /\ endPushes = 0
    /\ ended = [s \in BeamSockets |-> FALSE]
    /\ paused = [s \in BeamSockets |-> FALSE]
    /\ readCallback = FALSE
    /\ readTicks = 0
    /\ drainCallback = FALSE
    /\ beamDestroyed = FALSE
    /\ destroyPc = "none"
    /\ firstData = 0

Signals == {"SIGINT", "SIGTERM"}

\* An Error without a message and without a code; what lastError holds before
\* any 'error' event was delivered.
NoError == [code |-> "", message |-> <<>>]

\* The process before registerShutdown is called: no listener of the process
\* or of the controller is registered, nothing was written.
Unregistered ==
    /\ registered = FALSE
    /\ shuttingDown = FALSE
    /\ spinnerStopped = FALSE
    /\ armed = [sig \in Signals |-> FALSE]
    /\ closeRequests = 0
    /\ pendingExit = <<>>
    /\ proc = "running"
    /\ exitCode = -1
    /\ statusLines = <<>>
    /\ hConnect = [s \in Sessions |-> 0]
    /\ hDisconnect = [s \in Sessions |-> 0]
    /\ hError = [s \in Sessions |-> 0]
    /\ lastError = NoError

\* The controller as the factory returns it when the server came up at once;
\* the forward tunnel was asked for port 0 and the system assigned MIN_PORT.
Init ==
    /\ Constructed
    /\ listen = "returned"
    /\ requestedPort = 0
    /\ boundPort = IF mode = "forward" THEN MIN_PORT ELSE 0
    /\ PoolCreated
    /\ Unregistered
    /\ EndpointPoolCreated
    /\ BeamConstructed
    /\ announce = TRUE

\* Variant of ownsNode: the node is treated as owned even when supplied.
ownsNodeAlways == TRUE

\* const ownsNode = options.dht === undefined
ownsNode == ~dhtSupplied

\* A session exists once its inbound socket has been delivered to the
\* 'connection' handler: the peer socket on a reverse tunnel, the local TCP
\* socket on a forward tunnel.
Arrived(s) == IF mode = "reverse" THEN peer[s] # "none" ELSE local[s] # "none"

\* The session is suspended in its dial: net.connect has not yet connected
\* (reverse), or the continuation of awaitOpen(peer) has not yet run (forward).
InDial(s) ==
    IF mode = "reverse" THEN local[s] = "connecting"
    ELSE opened[s] \in {"pending", "resolved"}

\* events.emit('error', ...) on behalf of session s.
emitError(s) == nError' = [nError EXCEPT ![s] = @ + 1]

\* Variant of onDisconnect: the payload is built before the decrement.
onDisconnectStalePayload(s) ==
    /\ connections' = connections - 1
    /\ disconnectPayload' = [disconnectPayload EXCEPT ![s] = connections]
    /\ nDisconnect' = [nDisconnect EXCEPT ![s] = @ + 1]

\* function onDisconnect(): connections--, emit 'disconnect' with the payload
\* { activeConnections: connections }.
onDisconnect(s) ==
    /\ connections' = connections - 1
    /\ disconnectPayload' = [disconnectPayload EXCEPT ![s] = connections']
    /\ nDisconnect' = [nDisconnect EXCEPT ![s] = @ + 1]

\* Variant of cleanup: the `connected` test is dropped.
cleanupIgnoresConnected(s) ==
    /\ peers' = peers \ {s}
    /\ tcpSockets' = tcpSockets \ {s}
    /\ IF ~disconnected[s]
       THEN /\ disconnected' = [disconnected EXCEPT ![s] = TRUE]
            /\ onDisconnect(s)
       ELSE UNCHANGED <<disconnected, connections, nDisconnect, disconnectPayload>>

\* Variant of cleanup: `disconnected = true` is forgotten.
cleanupNoMark(s) ==
    /\ peers' = peers \ {s}
    /\ tcpSockets' = tcpSockets \ {s}
    /\ IF connected[s] /\ ~disconnected[s]
       THEN /\ UNCHANGED disconnected
            /\ onDisconnect(s)
       ELSE UNCHANGED <<disconnected, connections, nDisconnect, disconnectPayload>>

\* function cleanup() of the connection closure.
cleanup(s) ==
    /\ peers' = peers \ {s}
    /\ tcpSockets' = tcpSockets \ {s}
    /\ IF connected[s] /\ ~disconnected[s]
       THEN /\ disconnected' = [disconnected EXCEPT ![s] = TRUE]
            /\ onDisconnect(s)
       ELSE UNCHANGED <<disconnected, connections, nDisconnect, disconnectPayload>>

\* connected = true; connections++; emit 'connect'; (local.resume();)
\* pipeBothWays(local, peer).  Piping (and resume) make the local socket flow.
Adopt(s) ==
    /\ connected' = [connected EXCEPT ![s] = TRUE]
    /\ connections' = connections + 1
    /\ connectPayload' = [connectPayload EXCEPT ![s] = connections']
    /\ nConnect' = [nConnect EXCEPT ![s] = @ + 1]
    /\ flowing' = [flowing EXCEPT ![s] = TRUE]
    /\ piped' = [piped EXCEPT ![s] = TRUE]

Resume(s) == raced' = [raced EXCEPT ![s] = IF @ = "suspended" THEN "resumed" ELSE @]

(***************************************************************************)
(* Reverse tunnel: server.on('connection', peer => ...)                    *)
(***************************************************************************)
\* Variant of reverseConnection: the `if (closed)` guard is dropped.
reverseConnectionUnguarded(s) ==
    /\ peer' = [peer EXCEPT ![s] = "open"]
    /\ peers' = peers \cup {s}
    /\ local' = [local EXCEPT ![s] = "connecting"]
    /\ tcpSockets' = tcpSockets \cup {s}

reverseConnection(s) ==
    IF closed
    THEN /\ peer' = [peer EXCEPT ![s] = "closing"]
         /\ UNCHANGED <<peers, local, tcpSockets>>
    ELSE /\ peer' = [peer EXCEPT ![s] = "open"]
         /\ peers' = peers \cup {s}
         /\ local' = [local EXCEPT ![s] = "connecting"]
         /\ tcpSockets' = tcpSockets \cup {s}

ReverseConnection(s) ==
    /\ mode = "reverse"
    /\ listen \in {"bound", "returned"}
    /\ peer[s] = "none"
    /\ \A t \in Sessions : t < s => Arrived(t)
    /\ closePc \in {"idle", "server"}
    /\ reverseConnection(s)
    /\ late' = [late EXCEPT ![s] = closed]
    /\ UNCHANGED <<poolVars, gatewayVars, beamVars, shutdownVars, serverVars, mode, dhtSupplied, closed, connections, connected, disconnected,
                   opened, flowing, piped, read, eventVars, raced, dialFailed,
                   closeSeen, closeVars>>

\* local.on('connect', ...) of the reverse tunnel.
onLocalConnect(s) ==
    IF closed
    THEN /\ local' = [local EXCEPT ![s] = "closing"]
         /\ peer' = [peer EXCEPT ![s] = Destroy(@)]
         /\ UNCHANGED <<connected, connections, nConnect, connectPayload, flowing, piped>>
    ELSE /\ local' = [local EXCEPT ![s] = "open"]
         /\ UNCHANGED peer
         /\ Adopt(s)

ReverseLocalConnect(s) ==
    /\ mode = "reverse"
    /\ local[s] = "connecting"
    /\ onLocalConnect(s)
    /\ Resume(s)
    /\ UNCHANGED <<poolVars, gatewayVars, beamVars, shutdownVars, serverVars, mode, dhtSupplied, closed, peers, tcpSockets, disconnected,
                   opened, read, nDisconnect, disconnectPayload, nError, late, dialFailed, closeSeen, closeVars>>

(***************************************************************************)
(* Forward tunnel: tcpServer.on('connection', local => ...)                *)
(***************************************************************************)
\* Variant of forwardConnection: local.pause() is dropped.
forwardConnectionNoPause(s) ==
    IF closed
    THEN /\ local' = [local EXCEPT ![s] = "closing"]
         /\ flowing' = [flowing EXCEPT ![s] = TRUE]
         /\ UNCHANGED <<peers, peer, tcpSockets, opened>>
    ELSE /\ local' = [local EXCEPT ![s] = "open"]
         /\ tcpSockets' = tcpSockets \cup {s}
         /\ flowing' = [flowing EXCEPT ![s] = TRUE]
         /\ peer' = [peer EXCEPT ![s] = "opening"]
         /\ peers' = peers \cup {s}
         /\ opened' = [opened EXCEPT ![s] = "pending"]

forwardConnection(s) ==
    IF closed
    THEN /\ local' = [local EXCEPT ![s] = "closing"]
         /\ flowing' = [flowing EXCEPT ![s] = TRUE]
         /\ UNCHANGED <<peers, peer, tcpSockets, opened>>
    ELSE /\ local' = [local EXCEPT ![s] = "open"]
         /\ tcpSockets' = tcpSockets \cup {s}
         /\ flowing' = [flowing EXCEPT ![s] = FALSE]
         /\ peer' = [peer EXCEPT ![s] = "opening"]
         /\ peers' = peers \cup {s}
         /\ opened' = [opened EXCEPT ![s] = "pending"]

ForwardConnection(s) ==
    /\ mode = "forward"
    /\ listen \in {"bound", "returned"}
    /\ local[s] = "none"
    /\ \A t \in Sessions : t < s => Arrived(t)
    /\ closePc \in {"idle", "server"}
    /\ forwardConnection(s)
    /\ late' = [late EXCEPT ![s] = closed]
    /\ UNCHANGED <<poolVars, gatewayVars, beamVars, shutdownVars, serverVars, mode, dhtSupplied, closed, connections, connected, disconnected,
                   piped, read, eventVars, raced, dialFailed, closeSeen, closeVars>>

\* The peer socket emits 'open': awaitOpen's once('open', resolve).
PeerOpen(s) ==
    /\ mode = "forward"
    /\ peer[s] = "opening"
    /\ peer' = [peer EXCEPT ![s] = "open"]
    /\ opened' = [opened EXCEPT ![s] = IF @ = "pending" THEN "resolved" ELSE @]
    /\ UNCHANGED <<poolVars, gatewayVars, beamVars, shutdownVars, serverVars, mode, dhtSupplied, closed, connections, peers, tcpSockets, local,
                   connected, disconnected, flowing, piped, read, eventVars,
                   historyVars, closeVars>>

\* Variant of onOpened: the `if (closed)` guard after resuming is dropped.
onOpenedUnguarded(s) ==
    /\ UNCHANGED <<local, peer>>
    /\ Adopt(s)

\* awaitOpen(peer).then(() => ...)
onOpened(s) ==
    IF closed
    THEN /\ local' = [local EXCEPT ![s] = Destroy(@)]
         /\ peer' = [peer EXCEPT ![s] = Destroy(@)]
         /\ UNCHANGED <<connected, connections, nConnect, connectPayload, flowing, piped>>
    ELSE /\ UNCHANGED <<local, peer>>
         /\ Adopt(s)

ForwardOpened(s) ==
    /\ mode = "forward"
    /\ opened[s] = "resolved"
    /\ opened' = [opened EXCEPT ![s] = "settled"]
    /\ onOpened(s)
    /\ Resume(s)
    /\ UNCHANGED <<poolVars, gatewayVars, beamVars, shutdownVars, serverVars, mode, dhtSupplied, closed, peers, tcpSockets, disconnected, read,
                   nDisconnect, disconnectPayload, nError, late, dialFailed, closeSeen, closeVars>>

\* Variant of onOpenFailed: the two destroy() calls of the catch are dropped.
onOpenFailedNoDestroy(s) ==
    /\ emitError(s)
    /\ UNCHANGED <<local, peer>>

\* awaitOpen(peer).then(...).catch(error => ...)
onOpenFailed(s) ==
    /\ emitError(s)
    /\ local' = [local EXCEPT ![s] = Destroy(@)]
    /\ peer' = [peer EXCEPT ![s] = Destroy(@)]

ForwardOpenFailed(s) ==
    /\ mode = "forward"
    /\ opened[s] = "rejected"
    /\ opened' = [opened EXCEPT ![s] = "failed"]
    /\ onOpenFailed(s)
    /\ UNCHANGED <<poolVars, gatewayVars, beamVars, shutdownVars, serverVars, mode, dhtSupplied, closed, connections, peers, tcpSockets,
                   connected, disconnected, flowing, piped, read, nConnect, connectPayload,
                   nDisconnect, disconnectPayload, historyVars, closeVars>>

(***************************************************************************)
(* Socket events common to both tunnels                                    *)
(***************************************************************************)
\* Variant of onLocalError: peer.destroy() is dropped.
onLocalErrorNoDestroy(s) ==
    /\ emitError(s)
    /\ UNCHANGED peer

\* local.on('error', error => { emitError(error); peer.destroy() })
onLocalError(s) ==
    /\ emitError(s)
    /\ peer' = [peer EXCEPT ![s] = Destroy(@)]

\* The local TCP socket fails (dial refused, reset, ...): 'error' is emitted
\* and the socket is torn down, 'close' follows.
LocalError(s) ==
    /\ local[s] \in {"connecting", "open"}
    /\ local' = [local EXCEPT ![s] = "closing"]
    /\ dialFailed' = [dialFailed EXCEPT ![s] = @ \/ local[s] = "connecting"]
    /\ onLocalError(s)
    /\ UNCHANGED <<poolVars, gatewayVars, beamVars, shutdownVars, serverVars, mode, dhtSupplied, closed, connections, peers, tcpSockets,
                   connected, disconnected, opened, flowing, piped, read, nConnect, connectPayload,
                   nDisconnect, disconnectPayload, late, raced, closeSeen, closeVars>>

\* peer.on('error', error => { emitError(error); local.destroy() }), preceded
\* on a forward tunnel by awaitOpen's once('error', reject).
onPeerError(s) ==
    /\ opened' = [opened EXCEPT ![s] = IF @ = "pending" THEN "rejected" ELSE @]
    /\ emitError(s)
    /\ local' = [local EXCEPT ![s] = Destroy(@)]

PeerError(s) ==
    /\ peer[s] \in {"opening", "open"}
    /\ peer' = [peer EXCEPT ![s] = "closing"]
    /\ onPeerError(s)
    /\ UNCHANGED <<poolVars, gatewayVars, beamVars, shutdownVars, serverVars, mode, dhtSupplied, closed, connections, peers, tcpSockets,
                   connected, disconnected, flowing, piped, read, nConnect, connectPayload,
                   nDisconnect, disconnectPayload, historyVars, closeVars>>

\* The other end of the local TCP connection closes it without an error.
LocalHangup(s) ==
    /\ local[s] = "open"
    /\ local' = [local EXCEPT ![s] = "closing"]
    /\ UNCHANGED <<poolVars, gatewayVars, beamVars, shutdownVars, serverVars, mode, dhtSupplied, closed, connections, peers, tcpSockets, peer,
                   connected, disconnected, opened, flowing, piped, read, eventVars,
                   historyVars, closeVars>>

\* The remote peer closes the encrypted socket without an error.
PeerHangup(s) ==
    /\ peer[s] \in {"opening", "open"}
    /\ peer' = [peer EXCEPT ![s] = "closing"]
    /\ UNCHANGED <<poolVars, gatewayVars, beamVars, shutdownVars, serverVars, mode, dhtSupplied, closed, connections, peers, tcpSockets, local,
                   connected, disconnected, opened, flowing, piped, read, eventVars,
                   historyVars, closeVars>>

\* local.on('close', cleanup)
LocalClose(s) ==
    /\ local[s] = "closing"
    /\ local' = [local EXCEPT ![s] = "closed"]
    /\ cleanup(s)
    /\ closeSeen' = [closeSeen EXCEPT ![s] = @ \/ nConnect[s] > 0]
    /\ UNCHANGED <<poolVars, gatewayVars, beamVars, shutdownVars, serverVars, mode, dhtSupplied, closed, peer, connected, opened, flowing,
                   piped, read, nConnect, connectPayload, nError, late, raced, dialFailed, closeVars>>

\* peer.on('close', cleanup), preceded on a forward tunnel by awaitOpen's
\* once('close', reject).
PeerClose(s) ==
    /\ peer[s] = "closing"
    /\ peer' = [peer EXCEPT ![s] = "closed"]
    /\ opened' = [opened EXCEPT ![s] = IF @ = "pending" THEN "rejected" ELSE @]
    /\ cleanup(s)
    /\ closeSeen' = [closeSeen EXCEPT ![s] = @ \/ nConnect[s] > 0]
    /\ UNCHANGED <<poolVars, gatewayVars, beamVars, shutdownVars, serverVars, mode, dhtSupplied, closed, local, connected, flowing, piped,
                   read, nConnect, connectPayload, nError, late, raced, dialFailed, closeVars>>

\* Bytes are read from the local TCP socket (only while it is flowing).
LocalRead(s) ==
    /\ local[s] = "open"
    /\ flowing[s]
    /\ read[s] = "none"
    /\ read' = [read EXCEPT ![s] = IF nConnect[s] = 0 THEN "early" ELSE "piped"]
    /\ UNCHANGED <<poolVars, gatewayVars, beamVars, shutdownVars, serverVars, mode, dhtSupplied, closed, connections, peers, tcpSockets, local,
                   peer, connected, disconnected, opened, flowing, piped, eventVars,
                   historyVars, closeVars>>

(***************************************************************************)
(* controller.close()                                                      *)
(***************************************************************************)
\* Variant of close: the `if (closed) return` guard is dropped.
closeUnguarded ==
    /\ closed' = TRUE
    /\ local' = [s \in Sessions |->
                   IF s \in tcpSockets THEN Destroy(local[s]) ELSE local[s]]
    /\ peer' = [s \in Sessions |->
                   IF s \in peers THEN Destroy(peer[s]) ELSE peer[s]]
    /\ serverCloseCalls' = serverCloseCalls + 1
    /\ closePc' = "server"

\* Synchronous part of close(), up to the call of server.close() /
\* tcpServer.close().
close ==
    IF closed
    THEN UNCHANGED <<closed, local, peer, closePc, serverCloseCalls>>
    ELSE /\ closed' = TRUE
         /\ local' = [s \in Sessions |->
                        IF s \in tcpSockets THEN Destroy(local[s]) ELSE local[s]]
         /\ peer' = [s \in Sessions |->
                        IF s \in peers THEN Destroy(peer[s]) ELSE peer[s]]
         /\ serverCloseCalls' = serverCloseCalls + 1
         /\ closePc' = "server"

Close ==
    /\ listen = "returned"
    /\ closeCalls < MaxCloseCalls
    /\ closeCalls' = closeCalls + 1
    /\ close
    /\ raced' = [s \in Sessions |->
                   IF ~closed /\ InDial(s) THEN "suspended" ELSE raced[s]]
    /\ UNCHANGED <<poolVars, gatewayVars, beamVars, shutdownVars, serverVars, mode, dhtSupplied, connections, peers, tcpSockets, connected,
                   disconnected, opened, flowing, piped, read, eventVars, late,
                   dialFailed, closeSeen, nodeDestroyCalls, teardownFailures,
                   closeRejected>>

\* if (ownsNode) await node.destroy().catch(() => {})
afterServerClose ==
    IF ownsNode
    THEN /\ nodeDestroyCalls' = nodeDestroyCalls + 1
         /\ closePc' = "node"
    ELSE /\ closePc' = "done"
         /\ UNCHANGED nodeDestroyCalls

\* Reverse: await server.close().catch(() => {}); the promise of the DHT
\* server resolves (ok) or rejects.
ServerClosed(ok) ==
    /\ mode = "reverse"
    /\ closePc = "server"
    /\ teardownFailures' = IF ok THEN teardownFailures ELSE teardownFailures + 1
    /\ afterServerClose
    /\ UNCHANGED <<poolVars, gatewayVars, beamVars, shutdownVars, serverVars, mode, dhtSupplied, closed, connections, peers, tcpSockets,
                   sessionVars, eventVars, historyVars, closeCalls,
                   serverCloseCalls, closeRejected>>

\* Forward: await new Promise(resolve => tcpServer.close(() => resolve())).
\* net.Server invokes the callback once every accepted connection has closed.
TcpServerClosed ==
    /\ mode = "forward"
    /\ closePc = "server"
    /\ \A s \in Sessions : local[s] \in {"none", "closed"}
    /\ afterServerClose
    /\ UNCHANGED <<poolVars, gatewayVars, beamVars, shutdownVars, serverVars, mode, dhtSupplied, closed, connections, peers, tcpSockets,
                   sessionVars, eventVars, historyVars, closeCalls,
                   serverCloseCalls, teardownFailures, closeRejected>>

\* await node.destroy().catch(() => {}): the promise resolves (ok) or rejects.
NodeDestroyed(ok) ==
    /\ closePc = "node"
    /\ closePc' = "done"
    /\ teardownFailures' = IF ok THEN teardownFailures ELSE teardownFailures + 1
    /\ UNCHANGED <<poolVars, gatewayVars, beamVars, shutdownVars, serverVars, mode, dhtSupplied, closed, connections, peers, tcpSockets,
                   sessionVars, eventVars, historyVars, closeCalls,
                   serverCloseCalls, nodeDestroyCalls, closeRejected>>

(***************************************************************************)
(* Start-up of the factory and server-level errors                         *)
(***************************************************************************)
\* Ports the system may assign when asked for port 0.
AssignedPorts == {MIN_PORT, MAX_PORT}

\* The factory is still awaiting its server: `await server.listen(keyPair)`
\* (reverse) or the promise around tcpServer.listen (forward).
ListenInit ==
    /\ Constructed
    /\ listen = "pending"
    /\ requestedPort \in {0, MAX_PORT}
    /\ boundPort = 0
    /\ PoolCreated
    /\ Unregistered
    /\ EndpointPoolCreated
    /\ BeamConstructed
    /\ announce = TRUE

\* The server is up: server.listen resolved, or tcpServer called back / emitted
\* 'listening'.  A request for port 0 is answered with an assigned port.
Listening(p) ==
    /\ listen = "pending"
    /\ proc = "running"
    /\ listen' = "bound"
    /\ boundPort' = IF mode = "forward"
                    THEN (IF requestedPort = 0 THEN p ELSE requestedPort)
                    ELSE 0
    /\ UNCHANGED <<poolVars, gatewayVars, beamVars, shutdownVars, mode, dhtSupplied, closed, connections, peers, tcpSockets,
                   sessionVars, eventVars, historyVars, closeVars, requestedPort,
                   serverErrors>>

\* tcpServer emits 'error' before it listens.  Its listeners run in the order
\* of their registration: emitError (tcpServer.on('error', emitError)) first,
\* `reject` (tcpServer.once('error', reject)) second.  The controller is not
\* returned yet, so its emitter has no 'error' listener: emit throws out of
\* emitError, `reject` is not reached and the promise stays pending.
onBindError ==
    /\ serverErrors' = serverErrors + 1
    /\ proc' = "crashed"
    /\ UNCHANGED listen

\* The bind fails.  Reverse: `await server.listen(keyPair)` rejects, the
\* factory rejects and no controller is returned.  Forward: onBindError.
ListenFailed ==
    /\ listen = "pending"
    /\ proc = "running"
    /\ IF mode = "forward"
       THEN onBindError
       ELSE /\ listen' = "failed"
            /\ UNCHANGED <<serverErrors, proc>>
    /\ UNCHANGED <<poolVars, gatewayVars, beamVars, registered, shuttingDown, spinnerStopped, armed, closeRequests,
                   pendingExit, exitCode, statusLines, heardVars,
                   mode, dhtSupplied, closed, connections, peers, tcpSockets,
                   sessionVars, eventVars, historyVars, closeVars, requestedPort,
                   boundPort>>

\* The factory resumes after its await and returns the controller.
FactoryReturned ==
    /\ listen = "bound"
    /\ listen' = "returned"
    /\ UNCHANGED <<poolVars, gatewayVars, beamVars, shutdownVars, mode, dhtSupplied, closed, connections, peers, tcpSockets,
                   sessionVars, eventVars, historyVars, closeVars, requestedPort,
                   boundPort, serverErrors>>

\* Variant of listenPort: the port asked for instead of the bound one.
listenPortRequested == {requestedPort}

\* get listenPort(): tcpServer.address() is null before the server is bound
\* and after tcpServer.close(); the result is the set holding the port, or
\* the empty set for undefined.
listenPort ==
    IF mode = "forward" /\ listen \in {"bound", "returned"} /\ serverCloseCalls = 0
    THEN {boundPort}
    ELSE {}

\* Variant of onServerError: the handler also marks the tunnel closed.
onServerErrorCloses ==
    /\ serverErrors' = serverErrors + 1
    /\ closed' = TRUE
    /\ UNCHANGED <<connections, peers, tcpSockets, sessionVars, eventVars, closeVars>>

\* server.on('error', emitError) / tcpServer.on('error', emitError)
onServerError ==
    /\ serverErrors' = serverErrors + 1
    /\ UNCHANGED <<closed, connections, peers, tcpSockets, sessionVars,
                   eventVars, closeVars>>

\* The listening server emits 'error'.
ServerError ==
    /\ listen = "returned"
    /\ closePc \in {"idle", "server"}
    /\ serverErrors < MaxServerErrors
    /\ onServerError
    /\ UNCHANGED <<poolVars, gatewayVars, beamVars, shutdownVars, mode, dhtSupplied, historyVars, listen, requestedPort, boundPort>>

Next ==
    \/ \E s \in Sessions : ReverseConnection(s)
    \/ \E s \in Sessions : ReverseLocalConnect(s)
    \/ \E s \in Sessions : ForwardConnection(s)
    \/ \E s \in Sessions : PeerOpen(s)
    \/ \E s \in Sessions : ForwardOpened(s)
    \/ \E s \in Sessions : ForwardOpenFailed(s)
    \/ \E s \in Sessions : LocalError(s)
    \/ \E s \in Sessions : PeerError(s)
    \/ \E s \in Sessions : LocalHangup(s)
    \/ \E s \in Sessions : PeerHangup(s)
    \/ \E s \in Sessions : LocalClose(s)
    \/ \E s \in Sessions : PeerClose(s)
    \/ \E s \in Sessions : LocalRead(s)
    \/ Close
    \/ \E ok \in BOOLEAN : ServerClosed(ok)
    \/ TcpServerClosed
    \/ \E ok \in BOOLEAN : NodeDestroyed(ok)

Spec == Init /\ [][Next]_vars

\* What the runtime guarantees to happen: a destroyed socket emits 'close',
\* a settled promise runs its continuation, and the promises of
\* server.close(), tcpServer.close() and node.destroy() settle.  What the
\* remote ends do (connect, hang up, fail) is not guaranteed to happen.
Fairness ==
    /\ \A s \in Sessions : WF_vars(LocalClose(s))
    /\ \A s \in Sessions : WF_vars(PeerClose(s))
    /\ \A s \in Sessions : WF_vars(ForwardOpened(s))
    /\ \A s \in Sessions : WF_vars(ForwardOpenFailed(s))
    /\ WF_vars(\E ok \in BOOLEAN : ServerClosed(ok))
    /\ WF_vars(TcpServerClosed)
    /\ WF_vars(\E ok \in BOOLEAN : NodeDestroyed(ok))

FairSpec == Init /\ [][Next]_vars /\ Fairness

\* The tunnel together with errors of its server.
ErrNext ==
    \/ Next
    \/ ServerError

ErrSpec == Init /\ [][ErrNext]_vars

\* The tunnel from the call of the factory on.
ListenNext ==
    \/ \E p \in AssignedPorts : Listening(p)
    \/ ListenFailed
    \/ FactoryReturned
    \/ Next

ListenSpec == ListenInit /\ [][ListenNext]_vars

(***************************************************************************)
(* registerShutdown: the process around a controller                       *)
(***************************************************************************)
\* The Errors the controller is seen to emit.  A message is the sequence of
\* its words; a code of "" stands for an Error without a code.  The last one
\* is what emitError makes of the rejection of awaitOpen by a 'close' event,
\* new Error(String(undefined)).
Errors ==
    { [code |-> "ECONNRESET", message |-> <<"read", "ECONNRESET">>],
      [code |-> "EPIPE", message |-> <<"write", "EPIPE">>],
      [code |-> "", message |-> <<"Connection", "reset", "by", "peer">>],
      [code |-> "ERR_STREAM_PREMATURE_CLOSE", message |-> <<"Premature", "close">>],
      [code |-> "", message |-> <<"Writable", "stream", "closed", "prematurely">>],
      [code |-> "ECONNREFUSED", message |-> <<"connect", "ECONNREFUSED">>],
      [code |-> "", message |-> <<"undefined">>] }

\* String.prototype.toLowerCase on one word.
toLowerCaseWord(w) ==
    CASE w = "ECONNRESET" -> "econnreset"
      [] w = "EPIPE" -> "epipe"
      [] w = "ECONNREFUSED" -> "econnrefused"
      [] w = "ERR_STREAM_PREMATURE_CLOSE" -> "err_stream_premature_close"
      [] w = "Connection" -> "connection"
      [] w = "Premature" -> "premature"
      [] w = "Writable" -> "writable"
      [] OTHER -> w

\* String.prototype.toLowerCase on a message.
toLowerCase(m) == [i \in DOMAIN m |-> toLowerCaseWord(m[i])]

\* String.prototype.includes: the words of the phrase occur in a row.
includes(m, phrase) ==
    \E i \in 1..(Len(m) - Len(phrase) + 1) :
        \A j \in DOMAIN phrase : m[i + j - 1] = phrase[j]

\* Variant of isBenignConnectionError: code and message are compared as they are.
isBenignConnectionErrorAsIs(error) ==
    \/ error.code = "econnreset"
    \/ error.code = "epipe"
    \/ includes(error.message, <<"connection", "reset", "by", "peer">>)
    \/ includes(error.message, <<"writable", "stream", "closed", "prematurely">>)
    \/ includes(error.message, <<"premature", "close">>)

\* isBenignConnectionError(error)
isBenignConnectionError(error) ==
    LET message == toLowerCase(error.message)
        code == toLowerCaseWord(error.code)
    IN  \/ code = "econnreset"
        \/ code = "epipe"
        \/ includes(message, <<"connection", "reset", "by", "peer">>)
        \/ includes(message, <<"writable", "stream", "closed", "prematurely">>)
        \/ includes(message, <<"premature", "close">>)

\* Variant of shutdown: the `if (shuttingDown)` guard is dropped.
shutdownUnguarded(code) ==
    /\ shuttingDown' = TRUE
    /\ spinnerStopped' = TRUE
    /\ closeRequests' = closeRequests + 1
    /\ pendingExit' = Append(pendingExit, code)

\* shutdown(exitCode) up to its await: the call of tunnel.close() it reaches
\* is the step ShutdownCallsClose, process.exit is the step ShutdownExit.
shutdown(code) ==
    IF shuttingDown
    THEN UNCHANGED <<shuttingDown, spinnerStopped, closeRequests, pendingExit>>
    ELSE /\ shuttingDown' = TRUE
         /\ spinnerStopped' = TRUE
         /\ closeRequests' = closeRequests + 1
         /\ pendingExit' = Append(pendingExit, code)

\* An event was emitted that its listeners have not yet been run for.
Unheard ==
    \/ \E s \in Sessions : nConnect[s] > hConnect[s]
    \/ \E s \in Sessions : nDisconnect[s] > hDisconnect[s]
    \/ \E s \in Sessions : nError[s] > hError[s]

\* The process runs and is between two callbacks of the event loop: the
\* listeners of every emitted event have run, and so has the call of
\* tunnel.close() that shutdown() makes before it suspends.
Quiet ==
    /\ proc = "running"
    /\ ~Unheard
    /\ closeCalls = closeRequests

\* The commands call registerShutdown in the callback in which the factory
\* resolved (expose.ts 88-100, connect.ts 89-105), or, with a forward tunnel,
\* after `await openBrowser(url)` (open.ts 84-109): the controller runs from
\* the start in that case.
Started == registered \/ mode = "forward"

\* registerShutdown(tunnel, spinner)
RegisterShutdown ==
    /\ Quiet
    /\ ~registered
    /\ registered' = TRUE
    /\ armed' = [sig \in Signals |-> TRUE]
    /\ UNCHANGED <<tunnelVars, poolVars, gatewayVars, beamVars, shuttingDown, spinnerStopped, closeRequests,
                   pendingExit, proc, exitCode, statusLines, heardVars>>

\* The process receives SIGINT or SIGTERM: the process.once listener of the
\* signal runs and is gone; a signal without a listener ends the process.
Signal(sig) ==
    /\ Quiet
    /\ IF armed[sig]
       THEN /\ armed' = [armed EXCEPT ![sig] = FALSE]
            /\ shutdown(EXIT_SUCCESS)
            /\ UNCHANGED proc
       ELSE /\ proc' = "killed"
            /\ UNCHANGED <<armed, shuttingDown, spinnerStopped, closeRequests, pendingExit>>
    /\ UNCHANGED <<tunnelVars, poolVars, gatewayVars, beamVars, registered, exitCode, statusLines, heardVars>>

\* tunnel.on('connect', ...)
onConnectEvent(s) ==
    IF ~registered \/ shuttingDown \/ connectPayload[s] # FIRST_ACTIVE_CONNECTION
    THEN UNCHANGED <<spinnerStopped, statusLines>>
    ELSE /\ spinnerStopped' = TRUE
         /\ statusLines' = Append(statusLines, "SOCKET OPEN")

ConnectHeard(s) ==
    /\ proc = "running"
    /\ nConnect[s] > hConnect[s]
    /\ hConnect' = [hConnect EXCEPT ![s] = @ + 1]
    /\ onConnectEvent(s)
    /\ UNCHANGED <<tunnelVars, poolVars, gatewayVars, beamVars, registered, shuttingDown, armed, closeRequests,
                   pendingExit, proc, exitCode, hDisconnect, hError, lastError>>

\* tunnel.on('disconnect', ...)
onDisconnectEvent(s) ==
    IF ~registered \/ shuttingDown \/ disconnectPayload[s] # NO_ACTIVE_CONNECTIONS
    THEN UNCHANGED statusLines
    ELSE statusLines' = Append(statusLines, " CLOSED")

DisconnectHeard(s) ==
    /\ proc = "running"
    /\ nDisconnect[s] > hDisconnect[s]
    /\ hDisconnect' = [hDisconnect EXCEPT ![s] = @ + 1]
    /\ onDisconnectEvent(s)
    /\ UNCHANGED <<tunnelVars, poolVars, gatewayVars, beamVars, registered, shuttingDown, spinnerStopped, armed,
                   closeRequests, pendingExit, proc, exitCode, hConnect, hError,
                   lastError>>

\* tunnel.on('error', ...); an 'error' event emitted while the controller has
\* no 'error' listener is thrown by emit and ends the process.
onErrorEvent(error) ==
    IF ~registered
    THEN /\ proc' = "crashed"
         /\ UNCHANGED <<shuttingDown, spinnerStopped, closeRequests, pendingExit>>
    ELSE /\ UNCHANGED proc
         /\ IF isBenignConnectionError(error)
            THEN UNCHANGED <<shuttingDown, spinnerStopped, closeRequests, pendingExit>>
            ELSE shutdown(EXIT_FAILURE)

\* An 'error' event of the controller reaches the listeners.
ErrorHeard(s, error) ==
    /\ proc = "running"
    /\ nError[s] > hError[s]
    /\ hError' = [hError EXCEPT ![s] = @ + 1]
    /\ lastError' = error
    /\ onErrorEvent(error)
    /\ UNCHANGED <<tunnelVars, poolVars, gatewayVars, beamVars, registered, armed, exitCode, statusLines,
                   hConnect, hDisconnect>>

\* shutdown: tunnel.close() is called.
ShutdownCallsClose ==
    /\ proc = "running"
    /\ closeCalls < closeRequests
    /\ Close

\* shutdown: the promise of tunnel.close() has settled, process.exit(exitCode).
ShutdownExit ==
    /\ Quiet
    /\ pendingExit # <<>>
    /\ closePc = "done" \/ closeCalls > 1
    /\ proc' = "exited"
    /\ exitCode' = Head(pendingExit)
    /\ pendingExit' = Tail(pendingExit)
    /\ UNCHANGED <<tunnelVars, poolVars, gatewayVars, beamVars, registered, shuttingDown, spinnerStopped, armed,
                   closeRequests, statusLines, heardVars>>

ShutdownNext ==
    \/ RegisterShutdown
    \/ \E sig \in Signals : Signal(sig)
    \/ \E s \in Sessions : ConnectHeard(s)
    \/ \E s \in Sessions : DisconnectHeard(s)
    \/ \E s \in Sessions, error \in Errors : ErrorHeard(s, error)
    \/ ShutdownCallsClose
    \/ ShutdownExit
    \/ \E s \in Sessions : Quiet /\ Started /\ ReverseConnection(s)
    \/ \E s \in Sessions : Quiet /\ Started /\ ReverseLocalConnect(s)
    \/ \E s \in Sessions : Quiet /\ Started /\ ForwardConnection(s)
    \/ \E s \in Sessions : Quiet /\ Started /\ PeerOpen(s)
    \/ \E s \in Sessions : Quiet /\ Started /\ ForwardOpened(s)
    \/ \E s \in Sessions : Quiet /\ Started /\ ForwardOpenFailed(s)
    \/ \E s \in Sessions : Quiet /\ Started /\ LocalError(s)
    \/ \E s \in Sessions : Quiet /\ Started /\ PeerError(s)
    \/ \E s \in Sessions : Quiet /\ Started /\ LocalHangup(s)
    \/ \E s \in Sessions : Quiet /\ Started /\ PeerHangup(s)
    \/ \E s \in Sessions : Quiet /\ Started /\ LocalClose(s)
    \/ \E s \in Sessions : Quiet /\ Started /\ PeerClose(s)
    \/ \E ok \in BOOLEAN : Quiet /\ ServerClosed(ok)
    \/ Quiet /\ TcpServerClosed

\* The commands pass the node they made to the factory (dht: node).
ShutdownInit ==
    /\ Init
    /\ dhtSupplied

ShutdownSpec == ShutdownInit /\ [][ShutdownNext]_vars

ShutdownTypeOK ==
    /\ registered \in BOOLEAN
    /\ shuttingDown \in BOOLEAN
    /\ spinnerStopped \in BOOLEAN
    /\ armed \in [Signals -> BOOLEAN]
    /\ closeRequests \in 0..1
    /\ Len(pendingExit) <= 1
    /\ proc \in {"running", "exited", "killed", "crashed"}
    /\ exitCode \in {-1, EXIT_SUCCESS, EXIT_FAILURE}
    /\ lastError \in Errors \cup {NoError}
    /\ \A s \in Sessions : hConnect[s] <= nConnect[s] /\ hDisconnect[s] <= nDisconnect[s]
                             /\ hError[s] <= nError[s]

(***************************************************************************)
(* Peer pool (createPeerPool)                                              *)
(***************************************************************************)
\* The entry of socket s is in the list of key k.
InList(k, s) == \E i \in DOMAIN socketsByKey[k] : socketsByKey[k][i] = s

Pooled(s) == \E k \in Keys : InList(k, s)

\* removeEntry(entry): filters the list of entry.key by socket identity.
removeEntry(map, s) ==
    IF entryKey[s] \in Keys
    THEN [map EXCEPT ![entryKey[s]] = SelectSeq(@, LAMBDA c : c # s)]
    ELSE map

\* globalThis.clearTimeout(entry.idleTimer): a pending timer will not run; the
\* call does nothing for a timer that has run or was cleared.
clearTimeout(s) ==
    /\ idleTimer' = [idleTimer EXCEPT ![s] = FALSE]
    /\ pendingTimers' = [pendingTimers EXCEPT ![s] = IF idleTimer[s] THEN @ - 1 ELSE @]
    /\ due' = [due EXCEPT ![s] = FALSE]

\* removeEntry(entry), the keys of the Map: a key without a list stays
\* without one, a list that becomes empty is deleted, any other is set again.
removeEntryKeys(keys, s) ==
    IF entryKey[s] \in keys /\ removeEntry(socketsByKey, s)[entryKey[s]] = <<>>
    THEN keys \ {entryKey[s]}
    ELSE keys

\* Variant of findIdle: the lists of all keys are searched.
findIdleAnyKey(k) ==
    LET idle == {c \in PoolSockets : Pooled(c) /\ ~busy[c]}
    IN  IF idle = {} THEN {} ELSE {CHOOSE c \in idle : \A d \in idle : c <= d}

\* Variant of findIdle: the first entry of the list, busy or not.
findAnyEntry(k) ==
    IF socketsByKey[k] = <<>> THEN {} ELSE {socketsByKey[k][1]}

\* (socketsByKey.get(key) ?? []).find(entry => !entry.busy): the first idle
\* entry of the key's list, as a set with at most one socket.
findIdle(k) ==
    LET list == socketsByKey[k]
        idle == {i \in DOMAIN list : ~busy[list[i]]}
    IN  IF idle = {} THEN {} ELSE {list[CHOOSE i \in idle : \A j \in idle : i <= j]}

\* `return socket` of acquire: the caller now holds s, asked for under key k.
handOut(s, k) ==
    /\ holds' = [holds EXCEPT ![s] = @ + 1]
    /\ givenFor' = [givenFor EXCEPT ![s] = k]

\* Variant of reuse: the idle timer of the entry is left running.
reuseKeepsTimer(s, k) ==
    /\ busy' = [busy EXCEPT ![s] = TRUE]
    /\ handOut(s, k)
    /\ UNCHANGED <<idleTimer, pendingTimers, due, sockets, entryKey, createPc, socketsByKey, mapKeys, acquireErrors>>

\* acquire, `if (existing)`: mark busy, clear the idle timer, return the socket.
reuse(s, k) ==
    /\ busy' = [busy EXCEPT ![s] = TRUE]
    /\ clearTimeout(s)
    /\ handOut(s, k)
    /\ UNCHANGED <<sockets, entryKey, createPc, socketsByKey, mapKeys, acquireErrors>>

\* The next socket node.connect will create.
Fresh == {s \in PoolSockets : sockets[s] = "none" /\ \A c \in PoolSockets : c < s => sockets[c] # "none"}

\* Variant of createEntry: the entry is pushed on the list of its key before
\* the await instead of after it.
createEntryPushesFirst(k) ==
    /\ \E s \in Fresh :
        /\ sockets' = [sockets EXCEPT ![s] = "opening"]
        /\ entryKey' = [entryKey EXCEPT ![s] = k]
        /\ createPc' = [createPc EXCEPT ![s] = "waiting"]
        /\ socketsByKey' = [socketsByKey EXCEPT ![k] = Append(@, s)]
    /\ mapKeys' = mapKeys \cup {k}
    /\ UNCHANGED <<busy, idleTimer, pendingTimers, due, holds, givenFor, acquireErrors>>

\* createEntry up to its await: node.connect, then awaitOpen(socket).
createEntry(k) ==
    /\ \E s \in Fresh :
        /\ sockets' = [sockets EXCEPT ![s] = "opening"]
        /\ entryKey' = [entryKey EXCEPT ![s] = k]
        /\ createPc' = [createPc EXCEPT ![s] = "waiting"]
    /\ UNCHANGED <<busy, idleTimer, pendingTimers, due, socketsByKey, mapKeys, holds, givenFor, acquireErrors>>

\* Variant of acquire: the `if (closed)` guard is dropped.
acquireUnguarded(k) ==
    IF findIdle(k) # {}
    THEN \E s \in findIdle(k) : reuse(s, k)
    ELSE createEntry(k)

\* acquire(remotePublicKey) up to its return or its await.
acquire(k) ==
    IF poolClosed
    THEN /\ acquireErrors' = acquireErrors + 1
         /\ UNCHANGED <<sockets, entryKey, createPc, busy, idleTimer, pendingTimers, due, socketsByKey, mapKeys,
                        holds, givenFor>>
    ELSE IF findIdle(k) # {}
         THEN \E s \in findIdle(k) : reuse(s, k)
         ELSE createEntry(k)

\* Keys are interchangeable: they are first asked for in ascending order.
Acquire(k) ==
    /\ \A j \in Keys : j < k => \E s \in PoolSockets : entryKey[s] = j
    /\ poolClosed => acquireErrors < MaxAcquireErrors
    /\ acquire(k)
    /\ reused' = [s \in AllSockets |-> reused[s] \/ holds'[s] > holds[s]]
    /\ UNCHANGED <<tunnelVars, shutdownVars, gatewayVars, beamVars, poolClosed, destroyCalls, evicted, closedWith,
                   lateReleased, gone, poolCloseCalls>>
    /\ windowPassed' = [c \in AllSockets |-> windowPassed[c] /\ idleTimer'[c]]

\* The socket emits 'open': awaitOpen's once('open', resolve).
SocketOpen(s) ==
    /\ sockets[s] = "opening"
    /\ sockets' = [sockets EXCEPT ![s] = "open"]
    /\ createPc' = [createPc EXCEPT ![s] = IF @ = "waiting" THEN "resolved" ELSE @]
    /\ UNCHANGED <<tunnelVars, shutdownVars, gatewayVars, beamVars, poolClosed, socketsByKey, mapKeys, entryKey, busy, idleTimer, pendingTimers, due,
                   callerVars, poolHistory>>

\* createEntry after its await, and the return of acquire: the entry is made
\* busy, the 'close' and 'error' listeners are registered, the entry is pushed
\* on the list of its key.
onCreated(s) ==
    /\ busy' = [busy EXCEPT ![s] = TRUE]
    /\ socketsByKey' = [socketsByKey EXCEPT ![entryKey[s]] = Append(@, s)]
    /\ mapKeys' = mapKeys \cup {entryKey[s]}
    /\ handOut(s, entryKey[s])

CreateEntryResumed(s) ==
    /\ createPc[s] = "resolved"
    /\ createPc' = [createPc EXCEPT ![s] = "done"]
    /\ onCreated(s)
    /\ UNCHANGED <<tunnelVars, shutdownVars, gatewayVars, beamVars, poolClosed, sockets, entryKey, idleTimer, pendingTimers, due,
                   destroyCalls, evicted, acquireErrors, poolCloseCalls, poolHistory>>

\* awaitOpen rejected: createEntry and acquire reject, no entry is made.
CreateEntryFailed(s) ==
    /\ createPc[s] = "rejected"
    /\ createPc' = [createPc EXCEPT ![s] = "failed"]
    /\ UNCHANGED <<tunnelVars, shutdownVars, gatewayVars, beamVars, poolClosed, socketsByKey, mapKeys, sockets, entryKey, busy,
                   idleTimer, pendingTimers, due, callerVars, poolHistory>>

\* Variant of onSocketGone: the listeners clear the timer and keep the entry.
onSocketGoneKeepsEntry(s) ==
    IF createPc[s] = "done"
    THEN /\ clearTimeout(s)
         /\ UNCHANGED <<socketsByKey, mapKeys, createPc>>
    ELSE /\ createPc' = [createPc EXCEPT ![s] = IF @ = "waiting" THEN "rejected" ELSE @]
         /\ UNCHANGED <<idleTimer, pendingTimers, due, socketsByKey, mapKeys>>

\* socket.once('close', ...) and socket.once('error', ...) of createEntry,
\* registered once createEntry has resumed; before that only awaitOpen listens.
onSocketGone(s) ==
    IF createPc[s] = "done"
    THEN /\ clearTimeout(s)
         /\ socketsByKey' = removeEntry(socketsByKey, s)
         /\ mapKeys' = removeEntryKeys(mapKeys, s)
         /\ UNCHANGED createPc
    ELSE /\ createPc' = [createPc EXCEPT ![s] = IF @ = "waiting" THEN "rejected" ELSE @]
         /\ UNCHANGED <<idleTimer, pendingTimers, due, socketsByKey, mapKeys>>

\* The socket fails: 'error' is emitted, 'close' follows.
SocketError(s) ==
    /\ sockets[s] \in {"opening", "open"}
    /\ sockets' = [sockets EXCEPT ![s] = "closing"]
    /\ onSocketGone(s)
    /\ gone' = [gone EXCEPT ![s] = @ \/ createPc[s] = "done"]
    /\ UNCHANGED <<tunnelVars, shutdownVars, gatewayVars, beamVars, poolClosed, entryKey, busy, callerVars, reused,
                   closedWith, lateReleased>>
    /\ windowPassed' = [c \in AllSockets |-> windowPassed[c] /\ idleTimer'[c]]

\* The remote end closes the socket; 'close' follows.
SocketHangup(s) ==
    /\ sockets[s] \in {"opening", "open"}
    /\ sockets' = [sockets EXCEPT ![s] = "closing"]
    /\ UNCHANGED <<tunnelVars, shutdownVars, gatewayVars, beamVars, poolClosed, socketsByKey, mapKeys, entryVars, callerVars,
                   poolHistory>>

\* The 'close' event of a socket that was destroyed or has otherwise gone.
SocketClose(s) ==
    /\ sockets[s] = "closing"
    /\ sockets' = [sockets EXCEPT ![s] = "closed"]
    /\ onSocketGone(s)
    /\ gone' = [gone EXCEPT ![s] = @ \/ createPc[s] = "done"]
    /\ UNCHANGED <<tunnelVars, shutdownVars, gatewayVars, beamVars, poolClosed, entryKey, busy, callerVars, reused,
                   closedWith, lateReleased>>
    /\ windowPassed' = [c \in AllSockets |-> windowPassed[c] /\ idleTimer'[c]]

\* socket.destroy() called by the pool.
destroy(s) ==
    /\ sockets' = [sockets EXCEPT ![s] = Destroy(@)]
    /\ destroyCalls' = [destroyCalls EXCEPT ![s] = @ + 1]

\* Variant of scheduleIdleDestroy: the running timer is not cleared, and
\* stays pending with its deadline beside the new one.
scheduleIdleDestroyNoClear(s) ==
    /\ idleTimer' = [idleTimer EXCEPT ![s] = TRUE]
    /\ pendingTimers' = [pendingTimers EXCEPT ![s] = @ + 1]
    /\ due' = [due EXCEPT ![s] = idleTimer[s] /\ @]

\* scheduleIdleDestroy(entry): a running timer is cleared, a new one is set.
scheduleIdleDestroy(s) ==
    /\ idleTimer' = [idleTimer EXCEPT ![s] = TRUE]
    /\ pendingTimers' = [pendingTimers EXCEPT ![s] = (IF idleTimer[s] THEN @ - 1 ELSE @) + 1]
    /\ due' = [due EXCEPT ![s] = FALSE]

\* Variant of onIdleTimeout: removeEntry(entry) is dropped.
onIdleTimeoutNoRemove(s) ==
    /\ destroy(s)
    /\ UNCHANGED <<socketsByKey, mapKeys>>

\* The callback of the idle timer: removeEntry(entry); entry.socket.destroy().
onIdleTimeout(s) ==
    /\ socketsByKey' = removeEntry(socketsByKey, s)
    /\ mapKeys' = removeEntryKeys(mapKeys, s)
    /\ destroy(s)

\* The idle timeout of an entry elapses.
IdleTimeout(s) ==
    /\ idleTimer[s]
    /\ due[s]
    /\ idleTimer' = [idleTimer EXCEPT ![s] = FALSE]
    /\ pendingTimers' = [pendingTimers EXCEPT ![s] = @ - 1]
    /\ due' = [due EXCEPT ![s] = FALSE]
    /\ evicted' = [evicted EXCEPT ![s] = TRUE]
    /\ onIdleTimeout(s)
    /\ UNCHANGED <<tunnelVars, shutdownVars, gatewayVars, beamVars, poolClosed, entryKey, busy, createPc, holds,
                   givenFor, acquireErrors, poolCloseCalls, reused, closedWith,
                   lateReleased, gone>>
    /\ windowPassed' = [c \in AllSockets |-> windowPassed[c] /\ idleTimer'[c]]

\* Variant of release: after close() the socket is left alone.
releaseClosedNoDestroy(k, s) ==
    IF poolClosed
    THEN UNCHANGED <<sockets, destroyCalls, busy, idleTimer, pendingTimers, due, socketsByKey, mapKeys>>
    ELSE IF ~InList(k, s)
         THEN destroy(s) /\ UNCHANGED <<busy, idleTimer, pendingTimers, due, socketsByKey, mapKeys>>
         ELSE /\ busy' = [busy EXCEPT ![s] = FALSE]
              /\ scheduleIdleDestroy(s)
              /\ UNCHANGED <<sockets, destroyCalls, socketsByKey, mapKeys>>

\* Variant of release: the entry is marked idle but no timer is started.
releaseNoTimer(k, s) ==
    IF poolClosed \/ ~InList(k, s)
    THEN destroy(s) /\ UNCHANGED <<busy, idleTimer, pendingTimers, due, socketsByKey, mapKeys>>
    ELSE /\ busy' = [busy EXCEPT ![s] = FALSE]
         /\ UNCHANGED <<idleTimer, pendingTimers, due, sockets, destroyCalls, socketsByKey, mapKeys>>

\* Variant of release: a socket without an entry under the key is destroyed
\* and the list of the key is dropped with it.
releaseUnknownDropsList(k, s) ==
    IF poolClosed \/ ~InList(k, s)
    THEN /\ destroy(s)
         /\ socketsByKey' = [socketsByKey EXCEPT ![k] = <<>>]
         /\ mapKeys' = mapKeys \ {k}
         /\ UNCHANGED <<busy, idleTimer, pendingTimers, due>>
    ELSE /\ busy' = [busy EXCEPT ![s] = FALSE]
         /\ scheduleIdleDestroy(s)
         /\ UNCHANGED <<sockets, destroyCalls, socketsByKey, mapKeys>>

\* release(remotePublicKey, socket)
release(k, s) ==
    IF poolClosed \/ ~InList(k, s)
    THEN destroy(s) /\ UNCHANGED <<busy, idleTimer, pendingTimers, due, socketsByKey, mapKeys>>
    ELSE /\ busy' = [busy EXCEPT ![s] = FALSE]
         /\ scheduleIdleDestroy(s)
         /\ UNCHANGED <<sockets, destroyCalls, socketsByKey, mapKeys>>

\* idleTimeoutMs pass: every timer that is pending has reached its deadline.
Tick ==
    /\ \E s \in PoolSockets : idleTimer[s] /\ ~due[s]
    /\ due' = [s \in AllSockets |-> pendingTimers[s] > 0]
    /\ windowPassed' = [s \in AllSockets |-> windowPassed[s] \/ pendingTimers[s] > 0]
    /\ UNCHANGED <<tunnelVars, shutdownVars, gatewayVars, beamVars, poolClosed, socketsByKey, mapKeys, sockets, entryKey,
                   busy, idleTimer, pendingTimers, createPc, callerVars, reused,
                   closedWith, lateReleased, gone>>

\* A caller releases a socket it was given by acquire at some time, or a
\* socket of its own, under any key.
Release(k, s) ==
    /\ s = Foreign \/ createPc[s] = "done"
    /\ (poolClosed \/ ~InList(k, s)) => destroyCalls[s] < MaxDestroyCalls
    /\ release(k, s)
    /\ holds' = [holds EXCEPT ![s] = 0]
    /\ lateReleased' = [lateReleased EXCEPT ![s] = @ \/ poolClosed]
    /\ windowPassed' = [windowPassed EXCEPT
                          ![s] = IF ~poolClosed /\ InList(k, s) THEN FALSE ELSE @]
    /\ UNCHANGED <<tunnelVars, shutdownVars, gatewayVars, beamVars, poolClosed, entryKey, createPc,
                   givenFor, evicted, acquireErrors, poolCloseCalls, reused, closedWith, gone>>

\* Variant of poolClose: the `if (closed)` guard is dropped.
poolCloseUnguarded ==
    /\ poolClosed' = TRUE
    /\ idleTimer' = [s \in AllSockets |-> IF Pooled(s) THEN FALSE ELSE idleTimer[s]]
    /\ pendingTimers' = [s \in AllSockets |->
           IF Pooled(s) /\ idleTimer[s] THEN pendingTimers[s] - 1 ELSE pendingTimers[s]]
    /\ due' = [s \in AllSockets |-> IF Pooled(s) THEN FALSE ELSE due[s]]
    /\ sockets' = [s \in AllSockets |->
                     IF Pooled(s) THEN Destroy(sockets[s]) ELSE sockets[s]]
    /\ destroyCalls' = [s \in AllSockets |->
                     IF Pooled(s) THEN destroyCalls[s] + 1 ELSE destroyCalls[s]]
    /\ socketsByKey' = [k \in Keys |-> <<>>]
    /\ mapKeys' = {}

\* close() of the pool
poolClose ==
    IF poolClosed
    THEN UNCHANGED <<poolClosed, idleTimer, pendingTimers, due, sockets, destroyCalls, socketsByKey, mapKeys>>
    ELSE /\ poolClosed' = TRUE
         /\ idleTimer' = [s \in AllSockets |-> IF Pooled(s) THEN FALSE ELSE idleTimer[s]]
         /\ pendingTimers' = [s \in AllSockets |->
                IF Pooled(s) /\ idleTimer[s] THEN pendingTimers[s] - 1 ELSE pendingTimers[s]]
         /\ due' = [s \in AllSockets |-> IF Pooled(s) THEN FALSE ELSE due[s]]
         /\ sockets' = [s \in AllSockets |->
                          IF Pooled(s) THEN Destroy(sockets[s]) ELSE sockets[s]]
         /\ destroyCalls' = [s \in AllSockets |->
                          IF Pooled(s) THEN destroyCalls[s] + 1 ELSE destroyCalls[s]]
         /\ socketsByKey' = [k \in Keys |-> <<>>]
         /\ mapKeys' = {}

PoolClose ==
    /\ poolCloseCalls < MaxPoolCloseCalls
    /\ poolCloseCalls' = poolCloseCalls + 1
    /\ poolClose
    /\ closedWith' = IF poolClosed THEN closedWith ELSE {s \in AllSockets : Pooled(s)}
    /\ UNCHANGED <<tunnelVars, shutdownVars, gatewayVars, beamVars, entryKey, busy, createPc, holds, givenFor, evicted,
                   acquireErrors, reused, lateReleased, gone>>
    /\ windowPassed' = [c \in AllSockets |-> windowPassed[c] /\ idleTimer'[c]]

PoolNext ==
    \/ \E k \in Keys : Acquire(k)
    \/ \E s \in PoolSockets : SocketOpen(s)
    \/ \E s \in PoolSockets : CreateEntryResumed(s)
    \/ \E s \in PoolSockets : CreateEntryFailed(s)
    \/ \E s \in PoolSockets : SocketError(s)
    \/ \E s \in PoolSockets : SocketHangup(s)
    \/ \E s \in PoolSockets : SocketClose(s)
    \/ Tick
    \/ \E s \in PoolSockets : IdleTimeout(s)
    \/ \E k \in Keys, s \in AllSockets : Release(k, s)
    \/ PoolClose

\* The pool of a gateway: it shares the node it was given.
PoolInit ==
    /\ Init
    /\ mode = "forward"
    /\ dhtSupplied

PoolSpec == PoolInit /\ [][PoolNext]_vars

PoolTypeOK ==
    /\ poolClosed \in BOOLEAN
    /\ \A k \in Keys : \A i \in DOMAIN socketsByKey[k] : socketsByKey[k][i] \in PoolSockets
    /\ sockets \in [AllSockets -> SocketStates]
    /\ entryKey \in [AllSockets -> 0..MaxKeys]
    /\ busy \in [AllSockets -> BOOLEAN]
    /\ idleTimer \in [AllSockets -> BOOLEAN]
    /\ createPc \in [AllSockets -> {"none", "waiting", "resolved", "rejected", "done", "failed"}]
    /\ holds \in [AllSockets -> 0..1]
    /\ givenFor \in [AllSockets -> 0..MaxKeys]
    /\ destroyCalls \in [AllSockets -> 0..(MaxDestroyCalls + 1)]
    /\ evicted \in [AllSockets -> BOOLEAN]
    /\ acquireErrors \in 0..MaxAcquireErrors
    /\ poolCloseCalls \in 0..MaxPoolCloseCalls
    /\ reused \in [AllSockets -> BOOLEAN]
    /\ closedWith \subseteq PoolSockets
    /\ lateReleased \in [AllSockets -> BOOLEAN]
    /\ gone \in [AllSockets -> BOOLEAN]
    /\ windowPassed \in [AllSockets -> BOOLEAN]
    /\ pendingTimers \in [AllSockets -> 0..1]
    /\ due \in [AllSockets -> BOOLEAN]
    /\ mapKeys \subseteq Keys

(***************************************************************************)
(* Gateway: createTunnelEndpointPool and the requests that use it          *)
(***************************************************************************)
\* A controller is named after the request whose acquire created it.  The
\* controller's listenPort is defined when its factory has resolved, so the
\* `port === undefined` branch of acquire is not taken.

\* Position of key k in the Map, 0 when the Map has no entry for it.
IndexOf(k) ==
    IF \E i \in DOMAIN endpointOrder : endpointOrder[i] = k
    THEN CHOOSE i \in DOMAIN endpointOrder : endpointOrder[i] = k
    ELSE 0

\* clearIdleTimer(endpoint)
clearIdleTimer(timers, c) == [timers EXCEPT ![c] = FALSE]

\* endpoints.delete(key); an iterator that has passed the entry is not
\* affected by its removal.
endpointsDelete(k) ==
    /\ endpoints' = [endpoints EXCEPT ![k] = 0]
    /\ endpointOrder' = SelectSeq(endpointOrder, LAMBDA j : j # k)
    /\ closeIndex' = IF IndexOf(k) # 0 /\ IndexOf(k) <= closeIndex
                     THEN closeIndex - 1
                     ELSE closeIndex

\* endpoints.set(key, { controller, port }): a key the Map already has keeps
\* its position and gets the new endpoint.
endpointsSet(k, c) ==
    /\ endpoints' = [endpoints EXCEPT ![k] = c]
    /\ endpointOrder' = IF endpoints[k] = 0 THEN Append(endpointOrder, k) ELSE endpointOrder

\* acquire(remotePublicKey) of the endpoint pool up to its return, its throw
\* or its `await createForwardTunnel(...)`.
endpointAcquire(r, k) ==
    IF endpointsClosed
    THEN /\ reqPc' = [reqPc EXCEPT ![r] = "refused"]
         /\ UNCHANGED <<endpointTimer, controllerPc, reqEndpoint>>
    ELSE IF endpoints[k] # 0
         THEN /\ endpointTimer' = clearIdleTimer(endpointTimer, endpoints[k])
              /\ reqPc' = [reqPc EXCEPT ![r] = "holding"]
              /\ reqEndpoint' = [reqEndpoint EXCEPT ![r] = endpoints[k]]
              /\ UNCHANGED controllerPc
         ELSE /\ controllerPc' = [controllerPc EXCEPT ![r] = "creating"]
              /\ reqPc' = [reqPc EXCEPT ![r] = "waiting"]
              /\ UNCHANGED <<endpointTimer, reqEndpoint>>

\* A request for a peer reaches `await endpointPool.acquire(remoteKey)`.
\* Requests and keys are interchangeable: they come in ascending order.
RequestAcquire(r, k) ==
    /\ reqPc[r] = "idle"
    /\ \A q \in Requests : q < r => reqPc[q] # "idle"
    /\ \A j \in Keys : j < k => \E q \in Requests : reqKey[q] = j
    /\ reqKey' = [reqKey EXCEPT ![r] = k]
    /\ endpointAcquire(r, k)
    /\ UNCHANGED <<tunnelVars, poolVars, shutdownVars, beamVars, endpoints, endpointOrder,
                   endpointsClosed, controllerClosed, endpointClosePc, closeIndex,
                   endpointCloseCalls, idleFired>>

\* acquire after its await: the 'error' listener is registered on the
\* controller, the endpoint is set for the key and the port is returned.
onEndpointCreated(c) ==
    /\ endpointsSet(reqKey[c], c)
    /\ controllerPc' = [controllerPc EXCEPT ![c] = "set"]
    /\ reqPc' = [reqPc EXCEPT ![c] = "holding"]
    /\ reqEndpoint' = [reqEndpoint EXCEPT ![c] = c]

\* createForwardTunnel has resolved and acquire resumes.
EndpointCreated(c) ==
    /\ controllerPc[c] = "creating"
    /\ onEndpointCreated(c)
    /\ UNCHANGED <<tunnelVars, poolVars, shutdownVars, beamVars, endpointsClosed, endpointTimer,
                   controllerClosed, reqKey, endpointClosePc, closeIndex,
                   endpointCloseCalls, idleFired>>

\* release(remotePublicKey) of the endpoint pool: the timer of the endpoint
\* the Map has for the key is cleared and set again.
endpointRelease(k) ==
    IF endpointsClosed \/ endpoints[k] = 0
    THEN UNCHANGED endpointTimer
    ELSE endpointTimer' = [clearIdleTimer(endpointTimer, endpoints[k])
                              EXCEPT ![endpoints[k]] = TRUE]

\* releaseEndpoint() of the request handler, run by the first of the events
\* that end the request.
RequestRelease(r) ==
    /\ reqPc[r] = "holding"
    /\ reqPc' = [reqPc EXCEPT ![r] = "released"]
    /\ endpointRelease(reqKey[r])
    /\ UNCHANGED <<tunnelVars, poolVars, shutdownVars, beamVars, endpoints, endpointOrder,
                   endpointsClosed, controllerPc, controllerClosed, reqKey, reqEndpoint,
                   endpointClosePc, closeIndex, endpointCloseCalls, idleFired>>

\* The callback of the idle timer set by release:
\* endpoints.delete(key); void endpoint.controller.close()
onEndpointIdle(c) ==
    /\ endpointsDelete(reqKey[c])
    /\ controllerClosed' = [controllerClosed EXCEPT ![c] = TRUE]

\* IDLE_EVICT_MS have passed since the timer of the endpoint was set.
EndpointIdleTimeout(c) ==
    /\ endpointTimer[c]
    /\ endpointTimer' = [endpointTimer EXCEPT ![c] = FALSE]
    /\ idleFired' = [idleFired EXCEPT ![c] = TRUE]
    /\ onEndpointIdle(c)
    /\ UNCHANGED <<tunnelVars, poolVars, shutdownVars, beamVars, endpointsClosed, controllerPc,
                   reqPc, reqKey, reqEndpoint, endpointClosePc, endpointCloseCalls>>

\* controller.on('error', ...) registered by acquire.
onControllerError(c, error) ==
    IF isBenignConnectionError(error)
    THEN UNCHANGED <<endpoints, endpointOrder, closeIndex, controllerClosed>>
    ELSE /\ endpointsDelete(reqKey[c])
         /\ controllerClosed' = [controllerClosed EXCEPT ![c] = TRUE]

\* A controller the pool has registered its listener on emits 'error'.
ControllerError(c, error) ==
    /\ controllerPc[c] = "set"
    /\ onControllerError(c, error)
    /\ UNCHANGED <<tunnelVars, poolVars, shutdownVars, beamVars, endpointsClosed, endpointTimer,
                   controllerPc, reqPc, reqKey, reqEndpoint, endpointClosePc,
                   endpointCloseCalls, idleFired>>

\* The loop of close() arrives at position i of the Map: the body for the
\* entry there, up to `await endpoint.controller.close()`, or after the last
\* entry endpoints.clear() and the return.
closeLoop(i) ==
    IF i <= Len(endpointOrder)
    THEN /\ endpointTimer' = clearIdleTimer(endpointTimer, endpoints[endpointOrder[i]])
         /\ controllerClosed' = [controllerClosed EXCEPT ![endpoints[endpointOrder[i]]] = TRUE]
         /\ closeIndex' = i
         /\ endpointClosePc' = "awaiting"
         /\ UNCHANGED <<endpoints, endpointOrder>>
    ELSE /\ endpoints' = [k \in Keys |-> 0]
         /\ endpointOrder' = <<>>
         /\ closeIndex' = 0
         /\ endpointClosePc' = "done"
         /\ UNCHANGED <<endpointTimer, controllerClosed>>

\* close() of the endpoint pool up to its first await or its return.
endpointPoolClose ==
    IF endpointsClosed
    THEN UNCHANGED <<endpointsClosed, endpoints, endpointOrder, endpointTimer,
                     controllerClosed, closeIndex, endpointClosePc>>
    ELSE /\ endpointsClosed' = TRUE
         /\ closeLoop(1)

EndpointPoolClose ==
    /\ endpointCloseCalls < MaxEndpointCloseCalls
    /\ endpointCloseCalls' = endpointCloseCalls + 1
    /\ endpointPoolClose
    /\ UNCHANGED <<tunnelVars, poolVars, shutdownVars, beamVars, controllerPc, reqPc, reqKey,
                   reqEndpoint, idleFired>>

\* The controller.close() that close() awaits has settled: the loop goes on.
EndpointPoolCloseResumed ==
    /\ endpointClosePc = "awaiting"
    /\ closeLoop(closeIndex + 1)
    /\ UNCHANGED <<tunnelVars, poolVars, shutdownVars, beamVars, endpointsClosed, controllerPc,
                   reqPc, reqKey, reqEndpoint, endpointCloseCalls, idleFired>>

GatewayNext ==
    \/ \E r \in Requests, k \in Keys : RequestAcquire(r, k)
    \/ \E c \in Requests : EndpointCreated(c)
    \/ \E r \in Requests : RequestRelease(r)
    \/ \E c \in Requests : EndpointIdleTimeout(c)
    \/ \E c \in Requests, error \in Errors : ControllerError(c, error)
    \/ EndpointPoolClose
    \/ EndpointPoolCloseResumed

\* The gateway makes every controller with `dht: node`.
GatewayInit ==
    /\ Init
    /\ mode = "forward"
    /\ dhtSupplied

GatewaySpec == GatewayInit /\ [][GatewayNext]_vars

GatewayTypeOK ==
    /\ endpoints \in [Keys -> 0..MaxRequests]
    /\ \A i \in DOMAIN endpointOrder : endpoints[endpointOrder[i]] # 0
    /\ \A k \in Keys : endpoints[k] # 0 => IndexOf(k) # 0
    /\ Len(endpointOrder) <= MaxKeys
    /\ endpointsClosed \in BOOLEAN
    /\ endpointTimer \in [Requests -> BOOLEAN]
    /\ controllerPc \in [Requests -> {"none", "creating", "set"}]
    /\ controllerClosed \in [Requests -> BOOLEAN]
    /\ reqPc \in [Requests -> {"idle", "waiting", "holding", "released", "refused"}]
    /\ reqKey \in [Requests -> 0..MaxKeys]
    /\ reqEndpoint \in [Requests -> 0..MaxRequests]
    /\ endpointClosePc \in {"idle", "awaiting", "done"}
    /\ closeIndex \in 0..MaxKeys
    /\ endpointCloseCalls \in 0..MaxEndpointCloseCalls
    /\ idleFired \in [Requests -> BOOLEAN]

(***************************************************************************)
(* Beam (beam.ts): a duplex stream over one encrypted socket               *)
(***************************************************************************)
\* The stream library calls _open once, on a stream that was not destroyed
\* before, and destroys the stream when the open callback gets an error; it
\* calls _read and _write only between the open callback and destroy().

\* resolveOpen(error?): what the open callback has been invoked with, after
\* the call.
resolveOpen(result) ==
    IF openCallback THEN Append(openResults, result) ELSE openResults

\* destroy(err) of the stream with its _predestroy hook, in a handler that
\* has left the sockets as `socks` and the invocations of the open callback as
\* `results`: both adopted sockets are destroyed and the open callback, if
\* the handler has not resolved it, gets the error 'Destroyed', as do the
\* read and drain callbacks.  A stream that is already being destroyed is
\* not destroyed again.
predestroy(socks, results) ==
    IF beamDestroyed
    THEN /\ beamSocket' = socks
         /\ openResults' = results
         /\ openCallback' = (openCallback /\ results = openResults)
         /\ UNCHANGED <<beamDestroyed, readCallback, drainCallback>>
    ELSE /\ beamDestroyed' = TRUE
         /\ beamSocket' = [s \in BeamSockets |->
                             IF s \in {inbound, outbound} THEN Destroy(socks[s])
                             ELSE socks[s]]
         /\ openResults' = IF openCallback /\ results = openResults
                           THEN Append(results, "destroyed")
                           ELSE results
         /\ openCallback' = FALSE
         /\ readCallback' = FALSE
         /\ drainCallback' = FALSE

\* _open(cb): the callback is kept, then listenAsServer or connectAsClient
\* runs up to its await.  The client dials the first socket.
BeamOpen ==
    /\ proc = "running"
    /\ beamOpenPc = "none"
    /\ ~beamDestroyed
    /\ beamOpenPc' = "awaiting"
    /\ openCallback' = TRUE
    /\ IF announce
       THEN /\ server' = "pending"
            /\ UNCHANGED beamSocket
       ELSE /\ beamSocket' = [beamSocket EXCEPT ![1] = "opening"]
            /\ UNCHANGED server
    /\ UNCHANGED <<tunnelVars, poolVars, shutdownVars, gatewayVars, announce, handled,
                   outbound, inbound, openResults, connectedEmits, delivered, pushed, endPushes,
                   ended, paused, readCallback, readTicks, drainCallback, beamDestroyed,
                   destroyPc, firstData>>

\* server.listen(keyPair) resolves or rejects.
ServerListen(ok) ==
    /\ proc = "running"
    /\ server = "pending"
    /\ beamOpenPc = "awaiting"
    /\ server' = IF ok THEN "listening" ELSE "failed"
    /\ beamOpenPc' = IF ok THEN "resolved" ELSE "rejected"
    /\ UNCHANGED <<tunnelVars, poolVars, shutdownVars, gatewayVars, announce, beamSocket,
                   handled, outbound, inbound, openCallback, openResults, connectedEmits,
                   delivered, pushed, endPushes, ended, paused, readCallback, readTicks,
                   drainCallback, beamDestroyed, destroyPc, firstData>>

\* The dialed socket emits 'open', or 'error' / 'close' before it: awaitOpen
\* resolves or rejects.
DialSettled(ok) ==
    /\ proc = "running"
    /\ ~announce
    /\ beamSocket[1] = "opening"
    /\ beamOpenPc = "awaiting"
    /\ beamSocket' = [beamSocket EXCEPT ![1] = IF ok THEN "open" ELSE "closing"]
    /\ beamOpenPc' = IF ok THEN "resolved" ELSE "rejected"
    /\ UNCHANGED <<tunnelVars, poolVars, shutdownVars, gatewayVars, announce, server,
                   handled, outbound, inbound, openCallback, openResults, connectedEmits,
                   delivered, pushed, endPushes, ended, paused, readCallback, readTicks,
                   drainCallback, beamDestroyed, destroyPc, firstData>>

\* Variant of handleConnection: the `if (!this.outbound)` guard is dropped.
handleConnectionUnguarded(s) ==
    /\ handled' = handled \cup {s}
    /\ outbound' = s
    /\ connectedEmits' = connectedEmits + 1
    /\ openResults' = resolveOpen("ok")
    /\ openCallback' = FALSE

\* handleConnection(socket): the 'data' and 'end' listeners are registered;
\* the first socket becomes outbound, 'connected' is emitted and the open
\* callback is resolved.
handleConnection(s) ==
    /\ handled' = handled \cup {s}
    /\ IF outbound = 0
       THEN /\ outbound' = s
            /\ connectedEmits' = connectedEmits + 1
            /\ openResults' = resolveOpen("ok")
            /\ openCallback' = FALSE
       ELSE UNCHANGED <<outbound, connectedEmits, openResults, openCallback>>

\* server.on('connection', socket => this.handleConnection(socket)); the
\* sockets are named in the order of their arrival.
InboundConnection(s) ==
    /\ proc = "running"
    /\ server = "listening"
    /\ beamSocket[s] = "none"
    /\ \A c \in BeamSockets : c < s => beamSocket[c] # "none"
    /\ beamSocket' = [beamSocket EXCEPT ![s] = "open"]
    /\ handleConnection(s)
    /\ UNCHANGED <<tunnelVars, poolVars, shutdownVars, gatewayVars, announce, beamOpenPc,
                   server, inbound, delivered, pushed, endPushes, ended, paused,
                   readCallback, readTicks, drainCallback, beamDestroyed, destroyPc,
                   firstData>>

\* _open after its await, when listen or the dial succeeded: the address is
\* emitted, and the client hands its socket to handleConnection.
OpenResumed ==
    /\ proc = "running"
    /\ beamOpenPc = "resolved"
    /\ beamOpenPc' = "done"
    /\ IF announce
       THEN UNCHANGED <<handled, outbound, connectedEmits, openResults, openCallback>>
       ELSE handleConnection(1)
    /\ UNCHANGED <<tunnelVars, poolVars, shutdownVars, gatewayVars, announce, server,
                   beamSocket, inbound, delivered, pushed, endPushes, ended, paused,
                   readCallback, readTicks, drainCallback, beamDestroyed, destroyPc,
                   firstData>>

\* _open after its await, when listen or the dial failed:
\* this.resolveOpen(error); the open callback destroys the stream.
OpenFailed ==
    /\ proc = "running"
    /\ beamOpenPc = "rejected"
    /\ beamOpenPc' = "done"
    /\ IF openCallback
       THEN predestroy(beamSocket, resolveOpen("error"))
       ELSE UNCHANGED <<beamSocket, openResults, openCallback, beamDestroyed,
                        readCallback, drainCallback>>
    /\ UNCHANGED <<tunnelVars, poolVars, shutdownVars, gatewayVars, announce, server,
                   handled, outbound, inbound, connectedEmits, delivered, pushed,
                   endPushes, ended, paused, readTicks, destroyPc, firstData>>

\* socket.on('data', ...): the first socket to deliver data becomes inbound;
\* data of any other socket is dropped; the chunk is pushed, and the socket
\* is paused when the stream's buffer is full.
onData(s, full) ==
    /\ inbound' = IF inbound = 0 THEN s ELSE inbound
    /\ IF inbound' # s
       THEN UNCHANGED <<pushed, readTicks, paused>>
       ELSE /\ pushed' = [pushed EXCEPT ![s] = @ + 1]
            /\ readTicks' = readTicks + 1
            /\ paused' = [paused EXCEPT ![s] = full]

\* A socket handleConnection knows emits 'data'.
SocketData(s, full) ==
    /\ proc = "running"
    /\ s \in handled
    /\ beamSocket[s] = "open"
    /\ ~paused[s]
    /\ ~ended[s]
    /\ delivered[s] < MaxChunks
    /\ delivered' = [delivered EXCEPT ![s] = @ + 1]
    /\ firstData' = IF firstData = 0 THEN s ELSE firstData
    /\ onData(s, full)
    /\ UNCHANGED <<tunnelVars, poolVars, shutdownVars, gatewayVars, announce, beamOpenPc,
                   server, beamSocket, handled, outbound, openCallback, openResults,
                   connectedEmits, endPushes, ended, readCallback, drainCallback,
                   beamDestroyed, destroyPc>>

\* socket.on('end', ...) of handleConnection, which pushes the end of the
\* stream while there is no inbound socket, and inbound.on('end', ...) of the
\* inbound socket, which always does: the markers pushed for one 'end'.
onEnd(s) ==
    (IF inbound = 0 THEN 1 ELSE 0) + (IF inbound = s THEN 1 ELSE 0)

\* The remote side of a socket ends its stream.
SocketEnd(s) ==
    /\ proc = "running"
    /\ s \in handled
    /\ beamSocket[s] = "open"
    /\ ~paused[s]
    /\ ~ended[s]
    /\ ended' = [ended EXCEPT ![s] = TRUE]
    /\ endPushes' = endPushes + onEnd(s)
    /\ readTicks' = readTicks + onEnd(s)
    /\ UNCHANGED <<tunnelVars, poolVars, shutdownVars, gatewayVars, announce, beamOpenPc,
                   server, beamSocket, handled, outbound, inbound, openCallback,
                   openResults, connectedEmits, delivered, pushed, paused, readCallback,
                   drainCallback, beamDestroyed, destroyPc, firstData>>

\* A socket fails.  The outbound and the inbound socket have an 'error'
\* listener that destroys the stream; on any other socket 'error' has no
\* listener, and the event is thrown.
BeamSocketError(s) ==
    /\ proc = "running"
    /\ s \in handled
    /\ beamSocket[s] = "open"
    /\ IF s \in {outbound, inbound}
       THEN /\ predestroy([beamSocket EXCEPT ![s] = "closing"], openResults)
            /\ UNCHANGED proc
       ELSE /\ beamSocket' = [beamSocket EXCEPT ![s] = "closing"]
            /\ proc' = "crashed"
            /\ UNCHANGED <<openResults, openCallback, beamDestroyed, readCallback,
                           drainCallback>>
    /\ UNCHANGED <<tunnelVars, poolVars, processVars, gatewayVars, announce, beamOpenPc,
                   server, handled, outbound, inbound, connectedEmits, delivered, pushed,
                   endPushes, ended, paused, readTicks, destroyPc, firstData>>

\* _read(cb): the callback is kept and the inbound socket resumed.
BeamRead ==
    /\ proc = "running"
    /\ openResults = <<"ok">>
    /\ ~beamDestroyed
    /\ ~readCallback
    /\ readCallback' = TRUE
    /\ paused' = [s \in BeamSockets |-> paused[s] /\ s # inbound]
    /\ UNCHANGED <<tunnelVars, poolVars, shutdownVars, gatewayVars, announce, beamOpenPc,
                   server, beamSocket, handled, outbound, inbound, openCallback,
                   openResults, connectedEmits, delivered, pushed, endPushes, ended,
                   readTicks, drainCallback, beamDestroyed, destroyPc, firstData>>

\* queueTick(() => this.resolveRead()) of pushData.
ReadTick ==
    /\ proc = "running"
    /\ readTicks > 0
    /\ readTicks' = readTicks - 1
    /\ readCallback' = FALSE
    /\ UNCHANGED <<tunnelVars, poolVars, shutdownVars, gatewayVars, announce, beamOpenPc,
                   server, beamSocket, handled, outbound, inbound, openCallback,
                   openResults, connectedEmits, delivered, pushed, endPushes, ended,
                   paused, drainCallback, beamDestroyed, destroyPc, firstData>>

\* _write(data, cb) when outbound.write returned false: the callback waits
\* for 'drain'.  (A write that returned true calls back at once.)
BeamWrite ==
    /\ proc = "running"
    /\ openResults = <<"ok">>
    /\ ~beamDestroyed
    /\ ~drainCallback
    /\ drainCallback' = TRUE
    /\ UNCHANGED <<tunnelVars, poolVars, shutdownVars, gatewayVars, announce, beamOpenPc,
                   server, beamSocket, handled, outbound, inbound, openCallback,
                   openResults, connectedEmits, delivered, pushed, endPushes, ended,
                   paused, readCallback, readTicks, beamDestroyed, destroyPc, firstData>>

\* this.outbound.on('drain', () => this.resolveDrain())
OutboundDrain ==
    /\ proc = "running"
    /\ outbound # 0
    /\ beamSocket[outbound] = "open"
    /\ drainCallback
    /\ drainCallback' = FALSE
    /\ UNCHANGED <<tunnelVars, poolVars, shutdownVars, gatewayVars, announce, beamOpenPc,
                   server, beamSocket, handled, outbound, inbound, openCallback,
                   openResults, connectedEmits, delivered, pushed, endPushes, ended,
                   paused, readCallback, readTicks, beamDestroyed, destroyPc, firstData>>

\* beam.destroy() called by the owner of the beam.
BeamDestroy ==
    /\ proc = "running"
    /\ ~beamDestroyed
    /\ predestroy(beamSocket, openResults)
    /\ UNCHANGED <<tunnelVars, poolVars, shutdownVars, gatewayVars, announce, beamOpenPc,
                   server, handled, outbound, inbound, connectedEmits, delivered, pushed,
                   endPushes, ended, paused, readTicks, destroyPc, firstData>>

\* _destroy(cb): the server, if there is one, is closed, then the node.
BeamDestroyHook ==
    /\ proc = "running"
    /\ beamDestroyed
    /\ destroyPc = "none"
    /\ destroyPc' = "done"
    /\ server' = IF server = "none" THEN "none" ELSE "closed"
    /\ UNCHANGED <<tunnelVars, poolVars, shutdownVars, gatewayVars, announce, beamOpenPc,
                   beamSocket, handled, outbound, inbound, openCallback, openResults,
                   connectedEmits, delivered, pushed, endPushes, ended, paused,
                   readCallback, readTicks, drainCallback, beamDestroyed, firstData>>

BeamNext ==
    \/ BeamOpen
    \/ \E ok \in BOOLEAN : ServerListen(ok)
    \/ \E ok \in BOOLEAN : DialSettled(ok)
    \/ \E s \in BeamSockets : InboundConnection(s)
    \/ OpenResumed
    \/ OpenFailed
    \/ \E s \in BeamSockets, full \in BOOLEAN : SocketData(s, full)
    \/ \E s \in BeamSockets : SocketEnd(s)
    \/ \E s \in BeamSockets : BeamSocketError(s)
    \/ BeamRead
    \/ ReadTick
    \/ BeamWrite
    \/ OutboundDrain
    \/ BeamDestroy
    \/ BeamDestroyHook

\* A beam in either mode, next to an idle tunnel.
BeamInit ==
    /\ Constructed
    /\ mode = "forward"
    /\ dhtSupplied
    /\ listen = "returned"
    /\ requestedPort = 0
    /\ boundPort = MIN_PORT
    /\ PoolCreated
    /\ Unregistered
    /\ EndpointPoolCreated
    /\ BeamConstructed
    /\ announce \in BOOLEAN

BeamSpec == BeamInit /\ [][BeamNext]_vars

BeamTypeOK ==
    /\ announce \in BOOLEAN
    /\ beamOpenPc \in {"none", "awaiting", "resolved", "rejected", "done"}
    /\ server \in {"none", "pending", "listening", "failed", "closed"}
    /\ beamSocket \in [BeamSockets -> {"none", "opening", "open", "closing"}]
    /\ handled \subseteq BeamSockets
    /\ outbound \in 0..MaxBeamSockets
    /\ inbound \in 0..MaxBeamSockets
    /\ openCallback \in BOOLEAN
    /\ Len(openResults) <= 1
    /\ connectedEmits \in 0..1
    /\ delivered \in [BeamSockets -> 0..MaxChunks]
    /\ pushed \in [BeamSockets -> 0..MaxChunks]
    /\ endPushes \in 0..(MaxBeamSockets + 1)
    /\ ended \in [BeamSockets -> BOOLEAN]
    /\ paused \in [BeamSockets -> BOOLEAN]
    /\ readCallback \in BOOLEAN
    /\ readTicks \in 0..(MaxBeamSockets * MaxChunks + MaxBeamSockets + 1)
    /\ drainCallback \in BOOLEAN
    /\ beamDestroyed \in BOOLEAN
    /\ destroyPc \in {"none", "done"}
    /\ firstData \in 0..MaxBeamSockets

TypeOK ==
    /\ listen \in {"pending", "bound", "failed", "returned"}
    /\ requestedPort \in {0, MAX_PORT}
    /\ boundPort \in {0} \cup AssignedPorts
    /\ serverErrors \in 0..MaxServerErrors
    /\ mode \in {"reverse", "forward"}
    /\ dhtSupplied \in BOOLEAN
    /\ closed \in BOOLEAN
    /\ connections \in Int
    /\ peers \subseteq Sessions
    /\ tcpSockets \subseteq Sessions
    /\ local \in [Sessions -> SocketStates]
    /\ peer \in [Sessions -> SocketStates]
    /\ opened \in [Sessions -> {"none", "pending", "resolved", "rejected", "settled", "failed"}]
    /\ read \in [Sessions -> {"none", "early", "piped"}]
    /\ raced \in [Sessions -> {"no", "suspended", "resumed"}]
    /\ closePc \in {"idle", "server", "node", "done"}

(***************************************************************************)
(* Properties of the tunnel controllers                                    *)
(***************************************************************************)

\* C1: for every session, 'connect' is emitted at most once, 'disconnect' is
\* emitted at most once, and 'disconnect' is emitted only after 'connect'
\* was emitted for that session.
C1_ConnectDisconnectOnce ==
    \A s \in Sessions :
        /\ nConnect[s] <= 1
        /\ nDisconnect[s] <= 1
        /\ nDisconnect[s] <= nConnect[s]

\* A session connected and disconnected, both legs have closed, and close()
\* has been called.
C1_Witness ==
    \E s \in Sessions :
        /\ nConnect[s] = 1
        /\ nDisconnect[s] = 1
        /\ closed
        /\ local[s] = "closed"
        /\ peer[s] = "closed"

Live == {s \in Sessions : nConnect[s] > nDisconnect[s]}

\* C2: `connections` equals the number of sessions whose 'connect' has been
\* emitted and whose 'disconnect' has not; it is never negative; a step
\* changes it by one only, up when a session becomes connected and down when
\* a connected session becomes disconnected; and it is 0 once every session
\* that connected has seen one of its legs close.
C2_ConnectionsExact ==
    /\ [](/\ connections = Cardinality(Live)
          /\ connections >= 0
          /\ (\A s \in Sessions : nConnect[s] > 0 => closeSeen[s])
                => connections = 0)
    /\ [][connections' # connections =>
            \E s \in Sessions :
                \/ /\ connections' = connections + 1
                   /\ ~connected[s] /\ connected'[s]
                \/ /\ connections' = connections - 1
                   /\ connected[s] /\ ~disconnected[s] /\ disconnected'[s]]_vars

\* Every session connected and saw a leg close: the count is back at 0 while
\* a surviving leg is still open.
C2_Witness ==
    /\ \A s \in Sessions : nConnect[s] = 1 /\ closeSeen[s]
    /\ connections = 0
    /\ \E s \in Sessions : local[s] = "open" \/ peer[s] = "open"

\* C3: a session that arrives after close() was called has its socket
\* destroyed at once: no dial is started, nothing is piped, no 'connect' or
\* 'disconnect' is emitted for it, and its arrival leaves `connections`
\* unchanged.
C3_LateArrivalRejected ==
    /\ [](\A s \in Sessions : late[s] =>
            /\ nConnect[s] = 0 /\ nDisconnect[s] = 0
            /\ ~connected[s] /\ ~piped[s]
            /\ s \notin peers /\ s \notin tcpSockets
            /\ IF mode = "reverse"
               THEN Destroyed(peer[s]) /\ local[s] = "none"
               ELSE Destroyed(local[s]) /\ peer[s] = "none" /\ opened[s] = "none")
    /\ [][\A s \in Sessions :
            (closed /\ ~Arrived(s) /\ Arrived(s)') => connections' = connections]_vars

\* A late arrival while an earlier session is still counted.
C3_Witness ==
    \E s \in Sessions : late[s] /\ connections > 0

\* C4: when close() is called while a session is suspended in its dial, the
\* session is never adopted: no 'connect' or 'disconnect' is emitted for it,
\* resuming the dial leaves `connections` unchanged, and once the dial has
\* resumed both legs are destroyed.
C4_ClosedDuringDial ==
    /\ [](\A s \in Sessions :
            /\ raced[s] # "no" =>
                 nConnect[s] = 0 /\ nDisconnect[s] = 0 /\ ~connected[s]
            /\ raced[s] = "resumed" =>
                 Destroyed(local[s]) /\ Destroyed(peer[s]))
    /\ [][\A s \in Sessions :
            (raced[s] = "suspended" /\ raced'[s] = "resumed")
                => connections' = connections]_vars

\* The dial completed successfully after close().
C4_Witness ==
    \E s \in Sessions : raced[s] = "resumed"

\* C5: after close() has been called, every socket of every session accepted
\* before the call is destroyed.
C5_AllSocketsDestroyed ==
    closed => \A s \in Sessions :
        (Arrived(s) /\ ~late[s]) => Destroyed(local[s]) /\ Destroyed(peer[s])

\* C6: any number of close() calls leaves the state one call leaves: the
\* closed flag is set, server.close() is called once, node.destroy() is
\* called once for an owned node, a repeated call changes nothing, and no
\* call rejects.
C6_CloseIdempotent ==
    /\ [](/\ serverCloseCalls <= 1
          /\ nodeDestroyCalls <= 1
          /\ closeCalls >= 1 => closed /\ serverCloseCalls = 1
          /\ (closePc = "done" /\ ownsNode) => nodeDestroyCalls = 1
          /\ ~closeRejected)
    /\ [][(closed /\ closeCalls' # closeCalls) =>
            UNCHANGED <<mode, dhtSupplied, closed, connections, peers, tcpSockets,
                        sessionVars, eventVars, closePc, serverCloseCalls,
                        nodeDestroyCalls, teardownFailures, closeRejected>>]_vars

\* close() was called again after the first call completed on an owned node.
C6_Witness ==
    /\ closeCalls >= 2
    /\ closePc = "done"
    /\ ownsNode
    /\ nodeDestroyCalls = 1

\* C7: with a caller-supplied node, node.destroy() is never called, and
\* close() still closes the server.
C7_SuppliedNodeNotDestroyed ==
    dhtSupplied =>
        /\ nodeDestroyCalls = 0
        /\ closeCalls >= 1 => serverCloseCalls = 1
        /\ closePc \in {"idle", "server", "done"}

\* close() completed, twice called, on a supplied node after a session error.
C7_Witness ==
    /\ dhtSupplied
    /\ closePc = "done"
    /\ closeCalls >= 2
    /\ \E s \in Sessions : nError[s] > 0

\* C8: close() always eventually resolves and never rejects.
C8_CloseResolves ==
    /\ []~closeRejected
    /\ (closePc # "idle") ~> (closePc = "done")

\* C9: on a forward tunnel the local socket does not flow, and no byte is
\* read from it, before the session's 'connect' was emitted; it never flows
\* for a session whose handshake failed or whose tunnel was closed during
\* the dial.
C9_PausedUntilConnect ==
    mode = "forward" => \A s \in Sessions :
        /\ read[s] # "early"
        /\ (local[s] = "open" /\ flowing[s]) => nConnect[s] = 1
        /\ (Arrived(s) /\ ~late[s] /\ nConnect[s] = 0) => ~flowing[s]
        /\ raced[s] # "no" => ~flowing[s]

\* Bytes were read after 'connect' on one session, while another one whose
\* handshake failed stayed paused.
C9_Witness ==
    /\ mode = "forward"
    /\ \E s \in Sessions : read[s] = "piped"
    /\ \E s \in Sessions : opened[s] = "settled" /\ nConnect[s] = 0 /\ ~flowing[s]

C12_CounterpartBroughtDown ==
    \A s \in Sessions :
        (connected[s] /\ (local[s] = "closed" \/ peer[s] = "closed"))
            ~> (Destroyed(local[s]) /\ Destroyed(peer[s]))

C14_ListenPortBound ==
    (mode = "forward" /\ requestedPort = 0 /\ listen = "returned" /\ ~closed) =>
        /\ listenPort # {}
        /\ \A p \in listenPort : MIN_PORT <= p /\ p <= MAX_PORT

\* A forward tunnel created with port 0 is in use (a session is piping) and
\* reports the port the system assigned.
C14_Witness ==
    /\ mode = "forward"
    /\ requestedPort = 0
    /\ listen = "returned"
    /\ ~closed
    /\ listenPort = {MAX_PORT}
    /\ \E s \in Sessions : connected[s] /\ ~disconnected[s]

\* The entry of s is in the map and not busy.
IdleEntry(s) == s \in PoolSockets /\ Pooled(s) /\ ~busy[s]

\* This step is a call of acquire that returns socket r from the map.
ReturnsPooled(r) == holds'[r] > holds[r] /\ createPc'[r] = createPc[r]

\* This step is a call of acquire(k) that starts a new connection.
Connects(k) ==
    \E n \in PoolSockets : sockets[n] = "none" /\ sockets'[n] # "none" /\ entryKey'[n] = k

\* C15 as stated: while the pool is open and socket s, released under its key
\* k, is idle in the map and still open, a call of acquire(k) returns s itself,
\* whatever other sockets are pooled for k.
C15_ReuseSameSocket ==
    [][\A s \in PoolSockets :
         (~poolClosed /\ IdleEntry(s) /\ sockets[s] = "open") =>
            \A r \in PoolSockets :
                (ReturnsPooled(r) /\ givenFor'[r] = entryKey[s]) => r = s]_vars

\* C15, amended: while the pool is open and some released socket of key k is
\* idle in the map, a call of acquire(k) opens no new connection and returns
\* the first idle entry of the key's list (so it returns s when no idle entry
\* stands before s in the list); the idle timer of the returned socket is
\* cancelled, and no idle timer fires on a socket that is held.
C15_ReuseFirstIdle ==
    [][/\ \A k \in Keys :
            (~poolClosed /\ \E s \in PoolSockets : IdleEntry(s) /\ InList(k, s)) =>
                /\ ~Connects(k)
                /\ \A r \in PoolSockets :
                       (ReturnsPooled(r) /\ givenFor'[r] = k) =>
                           /\ ~idleTimer'[r]
                           /\ \E i \in DOMAIN socketsByKey[k] :
                                  /\ socketsByKey[k][i] = r
                                  /\ ~busy[r]
                                  /\ \A j \in 1..(i - 1) : busy[socketsByKey[k][j]]
       /\ \A s \in PoolSockets : (evicted'[s] /\ ~evicted[s]) => holds[s] = 0]_vars

\* Two sockets of one key are pooled and open; the second of the list was
\* released and acquired again, and is held with no idle timer running.
C15_Witness ==
    \E k \in Keys :
        /\ Len(socketsByKey[k]) = 2
        /\ reused[socketsByKey[k][2]]
        /\ holds[socketsByKey[k][2]] = 1
        /\ busy[socketsByKey[k][2]]
        /\ ~idleTimer[socketsByKey[k][2]]
        /\ sockets[socketsByKey[k][1]] = "open"
        /\ sockets[socketsByKey[k][2]] = "open"
        /\ ~poolClosed

\* C16: no socket is handed out twice without a release in between: a socket
\* is held at most once, acquire returns a socket from the map only when
\* its entry is not busy, and so a second acquire(k) made while the first
\* socket is still held ends with a second, different socket.
C16_NeverHandsOutBusy ==
    /\ [](\A s \in AllSockets : holds[s] <= 1)
    /\ [][\A r \in PoolSockets : ReturnsPooled(r) => ~busy[r]]_vars

\* Two acquire calls for one key without a release: two different open
\* sockets, both held.
C16_Witness ==
    \E s, r \in PoolSockets :
        /\ s # r
        /\ entryKey[s] = entryKey[r]
        /\ holds[s] = 1 /\ holds[r] = 1
        /\ ~reused[s] /\ ~reused[r]
        /\ sockets[s] = "open" /\ sockets[r] = "open"

\* C17: a socket is only ever returned by acquire calls for the key it was
\* connected for, and sits only in the list of that key.
C17_KeyIsolation ==
    \A s \in PoolSockets :
        /\ givenFor[s] \in {0, entryKey[s]}
        /\ \A k \in Keys : InList(k, s) => entryKey[s] = k

\* Sockets of two different keys were each released and acquired again.
C17_Witness ==
    \E s, r \in PoolSockets :
        /\ entryKey[s] # entryKey[r]
        /\ reused[s] /\ reused[r]
        /\ holds[s] = 1 /\ holds[r] = 1

C19_AcquireAfterClose ==
    [][poolClosed =>
        /\ \A k \in Keys : ~Connects(k)
        /\ \A r \in PoolSockets : ~ReturnsPooled(r)
        /\ acquireErrors' # acquireErrors =>
              UNCHANGED <<socketsByKey, mapKeys, sockets, entryVars, holds, givenFor>>]_vars

\* acquire was called on a closed pool that had pooled a socket.
C19_Witness ==
    /\ poolClosed
    /\ acquireErrors > 0
    /\ closedWith # {}

\* C20 as stated: for a socket on which the pool has called destroy() nowhere
\* but in close(), the first release after close() leaves the pool with
\* exactly one destroy() call made on that socket in total, the call of
\* close() counted.
C20_DestroyedExactlyOnce ==
    [][\A s \in AllSockets :
         (/\ poolClosed
          /\ ~lateReleased[s] /\ lateReleased'[s]
          /\ destroyCalls[s] = IF s \in closedWith THEN 1 ELSE 0)
            => destroyCalls'[s] = 1]_vars

\* C20, amended: the first release of a socket after close() calls destroy()
\* on it once more and leaves it destroyed; the pool has then called destroy()
\* on it at least once, and at least twice when the socket was in the map
\* when close() ran.
C20_ReleaseAfterCloseDestroys ==
    [][\A s \in AllSockets :
         (poolClosed /\ ~lateReleased[s] /\ lateReleased'[s]) =>
            /\ Destroyed(sockets'[s])
            /\ destroyCalls'[s] = destroyCalls[s] + 1
            /\ s \in closedWith => destroyCalls'[s] >= 2]_vars

\* After close(), a socket that was busy in the map and a socket the pool
\* never knew were both released: two destroy() calls on the first, one on
\* the second.
C20_Witness ==
    /\ poolClosed
    /\ lateReleased[Foreign]
    /\ destroyCalls[Foreign] = 1
    /\ \E s \in closedWith : lateReleased[s] /\ destroyCalls[s] = 2

\* C21: once close() of the pool has run, the map is empty in every state, and
\* a socket whose acquire was awaiting the handshake when close() ran is
\* never held by a caller alive: if the caller holds it, it is destroyed.
C21_NoAdoptAfterClose ==
    poolClosed =>
        /\ \A k \in Keys : socketsByKey[k] = <<>>
        /\ \A s \in PoolSockets :
               (holds[s] > 0 /\ s \notin closedWith) => Destroyed(sockets[s])

\* C22: every entry of the map that is not busy has a pending idle timer.
C22_IdleHasTimer ==
    \A s \in PoolSockets : (Pooled(s) /\ ~busy[s]) => idleTimer[s]

\* Two released sockets of one key wait in the map, each with its timer.
C22_Witness ==
    \E k \in Keys :
        /\ Len(socketsByKey[k]) = 2
        /\ \A i \in 1..2 : ~busy[socketsByKey[k][i]] /\ idleTimer[socketsByKey[k][i]]

\* C23: while the pool is open, a release of a socket that has no entry under
\* the given key (the only step of an open pool, apart from an eviction, in
\* which the pool calls destroy()) leaves the socket destroyed and changes
\* neither the map nor the busy flag or the idle timer of any entry.
C23_ReleaseUnknown ==
    [][\A s \in AllSockets :
         (/\ ~poolClosed /\ ~poolClosed'
          /\ destroyCalls'[s] > destroyCalls[s]
          /\ evicted'[s] = evicted[s])
            => /\ Destroyed(sockets'[s])
               /\ UNCHANGED <<socketsByKey, mapKeys, busy, idleTimer, pendingTimers, due>>]_vars

\* On an open pool a socket the pool never knew and a pooled socket given
\* back under another key were both destroyed by release, while the entry of
\* the second is still in the map, busy, beside another open socket.
C23_Witness ==
    /\ ~poolClosed
    /\ destroyCalls[Foreign] = 1
    /\ Destroyed(sockets[Foreign])
    /\ \E s, r \in PoolSockets :
           /\ s # r
           /\ Pooled(s) /\ busy[s] /\ destroyCalls[s] = 1 /\ ~evicted[s]
           /\ Pooled(r) /\ sockets[r] = "open"

\* C24: the first close() of the pool destroys every socket of the map, busy
\* or idle, cancels every idle timer and empties the map; every later close()
\* changes nothing and destroys nothing; once the pool is closed no idle
\* timer is pending, so none fires.
C24_PoolCloseIdempotent ==
    /\ [](poolClosed => \A s \in AllSockets : ~idleTimer[s])
    /\ [][poolCloseCalls' > poolCloseCalls =>
            IF ~poolClosed
            THEN /\ poolClosed'
                 /\ \A k \in Keys : socketsByKey'[k] = <<>>
                 /\ \A s \in AllSockets : ~idleTimer'[s]
                 /\ \A s \in AllSockets :
                        IF Pooled(s)
                        THEN /\ Destroyed(sockets'[s])
                             /\ destroyCalls'[s] = destroyCalls[s] + 1
                        ELSE /\ sockets'[s] = sockets[s]
                             /\ destroyCalls'[s] = destroyCalls[s]
            ELSE UNCHANGED <<poolClosed, socketsByKey, mapKeys, sockets, entryVars,
                             destroyCalls, holds, evicted>>]_vars

\* close() was called twice on a pool that held one busy and one idle socket;
\* each was destroyed once.
C24_Witness ==
    /\ poolCloseCalls = 2
    /\ closedWith = PoolSockets
    /\ \E s, r \in closedWith : busy[s] /\ ~busy[r]
    /\ \A s \in closedWith : destroyCalls[s] = 1

\* C25: once the 'close' or 'error' listener of an entry has run, busy or
\* idle, the entry is out of the map and has no timer, and no acquire returns
\* its socket any more; the Map has a list for a key exactly when that list
\* is not empty, so a list that becomes empty is deleted.
C25_GoneSocketRemoved ==
    /\ [](\A s \in PoolSockets : gone[s] => ~Pooled(s) /\ ~idleTimer[s])
    /\ [](mapKeys = {k \in Keys : socketsByKey[k] # <<>>})
    /\ [][\A s \in PoolSockets : gone[s] => holds'[s] <= holds[s]]_vars

\* The only entry of a key was removed by an event of its socket, which the
\* pool never destroyed, and the key has no list any more, while an idle entry
\* of another key waits in the map with its timer.
C25_Witness ==
    \E s, r \in PoolSockets :
        /\ gone[s] /\ ~evicted[s] /\ destroyCalls[s] = 0 /\ ~poolClosed
        /\ entryKey[s] \notin mapKeys
        /\ Pooled(r) /\ ~busy[r] /\ idleTimer[r]

\* C30: an entry has at most one pending timer, and only while it is in the
\* map and idle, so no timer fires on a busy entry; a timer fires only when
\* idleTimeoutMs have passed since the most recent release of its entry and
\* never on a busy entry; an acquire that reuses an entry leaves it without a
\* pending timer; a release of an entry, busy or already idle, leaves it with
\* exactly one timer whose window starts anew.
C30_IdleTimerDiscipline ==
    /\ [](\A s \in AllSockets :
            /\ pendingTimers[s] = IF idleTimer[s] THEN 1 ELSE 0
            /\ idleTimer[s] => Pooled(s) /\ ~busy[s])
    /\ [][\A s \in PoolSockets :
            /\ (evicted'[s] /\ ~evicted[s]) => ~busy[s] /\ windowPassed[s]
            /\ ReturnsPooled(s) => pendingTimers'[s] = 0
            /\ (busy[s] /\ ~busy'[s]) => pendingTimers'[s] = 1 /\ ~due'[s]
            /\ (idleTimer'[s] /\ windowPassed[s] /\ ~windowPassed'[s])
                   => pendingTimers'[s] = 1 /\ ~due'[s]]_vars

\* An entry was released, waited a full window, was released once more and
\* has then waited out the new window: its single timer is due; the other
\* entry was reused with its timer cancelled.
C30_Witness ==
    \E s, r \in PoolSockets :
        /\ s # r
        /\ idleTimer[s] /\ due[s] /\ windowPassed[s] /\ reused[s] /\ ~evicted[s]
        /\ Pooled(r) /\ busy[r] /\ reused[r] /\ ~idleTimer[r]

\* C29: every 'connect' event carries the value of `connections` right after
\* its increment, which is at least 1, and every 'disconnect' event the value
\* right after its decrement, which is at least 0; a session that is the only
\* one of its tunnel so far connects with 1 and disconnects with 0.
C29_PayloadIsCounter ==
    /\ [][\A s \in Sessions :
            /\ nConnect'[s] > nConnect[s]
                   => /\ connections' = connections + 1
                      /\ connectPayload'[s] = connections'
                      /\ connectPayload'[s] >= 1
            /\ nDisconnect'[s] > nDisconnect[s]
                   => /\ connections' = connections - 1
                      /\ disconnectPayload'[s] = connections'
                      /\ disconnectPayload'[s] >= 0]_vars
    /\ [](\A s \in Sessions :
            (\A o \in Sessions \ {s} : ~Arrived(o))
               => /\ nConnect[s] = 1 => connectPayload[s] = 1
                  /\ nDisconnect[s] = 1 => disconnectPayload[s] = 0)

\* A reverse tunnel served a single session: 'connect' with 1, then
\* 'disconnect' with 0.
C29_Witness ==
    /\ mode = "reverse"
    /\ \E s \in Sessions :
           /\ \A o \in Sessions \ {s} : ~Arrived(o)
           /\ nConnect[s] = 1 /\ connectPayload[s] = 1
           /\ nDisconnect[s] = 1 /\ disconnectPayload[s] = 0
           /\ connections = 0

(***************************************************************************)
(* Properties of registerShutdown                                          *)
(***************************************************************************)
\* What the specification calls a benign error: the code ECONNRESET or EPIPE,
\* or the message of a reset or of a premature close.
ClaimedBenign(error) ==
    \/ error.code \in {"ECONNRESET", "EPIPE"}
    \/ error.message \in { <<"Connection", "reset", "by", "peer">>,
                           <<"Premature", "close">>,
                           <<"Writable", "stream", "closed", "prematurely">> }

\* An 'error' event is delivered to the listener of registerShutdown.
HearsError ==
    /\ registered
    /\ \E s \in Sessions : hError'[s] > hError[s]

C27_FatalExitsWithFailure ==
    [][HearsError =>
         IF ClaimedBenign(lastError')
         THEN UNCHANGED <<shuttingDown, closeRequests, closeCalls, pendingExit>>
         ELSE shuttingDown' /\ pendingExit' = <<EXIT_FAILURE>>]_vars

\* C27, amended: a benign error starts no shutdown and calls no close(); any
\* other error heard while no shutdown is under way starts it, with one call
\* of tunnel.close() and EXIT_FAILURE as the code to exit with; heard during
\* a shutdown it changes nothing. close() is called by shutdown only, and the
\* process exits with the code of the trigger that started the shutdown.
C27_FatalStartsShutdown ==
    /\ [][HearsError =>
            IF ClaimedBenign(lastError')
            THEN UNCHANGED <<shuttingDown, closeRequests, closeCalls, pendingExit>>
            ELSE /\ shuttingDown'
                 /\ IF shuttingDown
                    THEN UNCHANGED <<closeRequests, closeCalls, pendingExit>>
                    ELSE /\ closeRequests' = closeRequests + 1
                         /\ pendingExit' = <<EXIT_FAILURE>>]_vars
    /\ [][closeCalls' > closeCalls => shuttingDown /\ closeCalls < closeRequests]_vars
    /\ [][(proc = "running" /\ proc' = "exited") => exitCode' = Head(pendingExit)]_vars

\* With both signal listeners still waiting, a fatal error shut the process
\* down: it has exited with EXIT_FAILURE.
C27_Witness ==
    /\ proc = "exited"
    /\ exitCode = EXIT_FAILURE
    /\ \A sig \in Signals : armed[sig]
    /\ lastError \in Errors /\ ~ClaimedBenign(lastError)

\* C28: while the process is not shutting down, 'SOCKET OPEN' is written
\* exactly for the 'connect' event that takes the count from 0 to 1 and
\* ' CLOSED' exactly for the 'disconnect' event that takes it from 1 to 0,
\* and the lines written alternate, the first being 'SOCKET OPEN'.
C28_StatusLinesAlternate ==
    /\ [](\A i \in DOMAIN statusLines :
            statusLines[i] = IF i % 2 = 1 THEN "SOCKET OPEN" ELSE " CLOSED")
    /\ [][(registered /\ ~shuttingDown) =>
            /\ \A s \in Sessions :
                  hConnect'[s] > hConnect[s] =>
                     statusLines' = IF connections = FIRST_ACTIVE_CONNECTION
                                    THEN Append(statusLines, "SOCKET OPEN")
                                    ELSE statusLines
            /\ \A s \in Sessions :
                  hDisconnect'[s] > hDisconnect[s] =>
                     statusLines' = IF connections = NO_ACTIVE_CONNECTIONS
                                    THEN Append(statusLines, " CLOSED")
                                    ELSE statusLines
            /\ (hConnect' = hConnect /\ hDisconnect' = hDisconnect)
                  => statusLines' = statusLines]_vars

(***************************************************************************)
(* C31: no callback of a tunnel controller throws.  Every failure of a     *)
(* session or of the server is delivered as an 'error' event only, in      *)
(* every state of the controller, also while no 'error' listener is        *)
(* registered on it: the process is never ended by an exception thrown    *)
(* out of emitError.                                                       *)
(***************************************************************************)
C31_NoCallbackThrows == proc # "crashed"

(***************************************************************************)
(* C32: when the TCP server of a forward tunnel fails to bind, the promise *)
(* returned by createForwardTunnel rejects and no controller is returned;  *)
(* and the promise resolves only once the server is bound.  (On the way    *)
(* to the returned controller the only 'error' event of tcpServer is the   *)
(* one of the failed bind.)                                                *)
(***************************************************************************)
C32_BindFailureRejects ==
    mode = "forward" =>
        /\ serverErrors > 0 => listen = "failed"
        /\ listen \in {"bound", "returned"} => (serverErrors = 0 /\ boundPort # 0)

(***************************************************************************)
(* C33: a session starts piping only while both of its legs are open.  If  *)
(* the 'close' of the peer socket was delivered while a reverse session    *)
(* was dialing the local service, or the 'close' of the local socket while *)
(* a forward session awaited the handshake, a dial that succeeds afterwards *)
(* emits no 'connect' and does not increment `connections`.                *)
(***************************************************************************)
C33_NoConnectAfterLegClosed ==
    [][\A s \in Sessions :
          (peer[s] = "closed" \/ local[s] = "closed") =>
              /\ nConnect'[s] = nConnect[s]
              /\ connections' <= connections]_vars

(***************************************************************************)
(* C34: on a forward tunnel a handshake that fails with one 'error' of the *)
(* peer socket yields exactly one 'error' event of the controller for the  *)
(* session.  A rejected awaitOpen whose peer socket is destroyed but has   *)
(* not yet delivered its 'close' was rejected by the peer's 'error'; when  *)
(* the catch of such a promise has run, one 'error' event was emitted for  *)
(* the session.                                                            *)
(***************************************************************************)
C34_OneErrorPerFailedHandshake ==
    [][\A s \in Sessions :
          (/\ mode = "forward"
           /\ opened[s] = "rejected"
           /\ peer[s] = "closing"
           /\ opened'[s] = "failed") => nError'[s] = 1]_vars

(***************************************************************************)
(* C35: an acquire whose handshake fails (the socket emits 'error' or      *)
(* 'close' before 'open') rejects and leaves the pool as it was.  The      *)
(* step that rejects awaitOpen and the step in which createEntry and       *)
(* acquire reject change neither the map nor the busy flag or the idle     *)
(* timer of any entry; and a socket whose handshake failed is in no list,  *)
(* is not busy and was never returned by acquire.                          *)
(***************************************************************************)
C35_FailedAcquireLeavesPool ==
    /\ [](\A s \in PoolSockets : createPc[s] \in {"rejected", "failed"} =>
            /\ ~Pooled(s)
            /\ ~busy[s]
            /\ holds[s] = 0)
    /\ [][\A s \in PoolSockets :
            (createPc'[s] # createPc[s] /\ createPc'[s] \in {"rejected", "failed"}) =>
                UNCHANGED <<socketsByKey, mapKeys, busy, idleTimer, pendingTimers,
                            due, holds, poolClosed>>]_vars

\* An acquire for one key has failed and its socket has closed; the entry of
\* another key, made before it and never reused, waits idle with its timer set.
C35_Witness ==
    \E s, c \in PoolSockets :
        /\ createPc[s] = "failed"
        /\ sockets[s] = "closed"
        /\ entryKey[c] # entryKey[s]
        /\ c < s
        /\ Pooled(c)
        /\ ~busy[c]
        /\ idleTimer[c]
        /\ ~reused[c]

(***************************************************************************)
(* Properties of the gateway's tunnel endpoint pool                        *)
(***************************************************************************)

\* C36: every forward tunnel controller the endpoint pool has created (its
\* factory resolved and acquire took it over) is the controller of the
\* endpoint the Map holds for its key, or close() was called on it; however
\* the acquire calls for a key interleave.
C36_NoOrphanController ==
    \A c \in Requests :
        controllerPc[c] = "set" => (endpoints[reqKey[c]] = c \/ controllerClosed[c])

\* C37: the idle timer never evicts an endpoint that some request has
\* acquired and not yet released, also when several requests share it and
\* only some of them have released: in the step in which the timer of an
\* endpoint fires, no request holds that endpoint.
C37_NoEvictionWhileHeld ==
    [][\A c \in Requests :
          (idleFired'[c] /\ ~idleFired[c]) =>
              ~\E r \in Requests : reqPc[r] = "holding" /\ reqEndpoint[r] = c]_vars

\* C38: once close() of the endpoint pool has resolved, the Map is empty and
\* close() was called on every controller the pool took over, also the one
\* of an acquire that was suspended in createForwardTunnel when close() was
\* called; and from then on no acquire returns a port and no idle timer fires.
C38_ClosedPoolStaysEmpty ==
    /\ [](endpointClosePc = "done" =>
            /\ endpointOrder = <<>>
            /\ \A k \in Keys : endpoints[k] = 0
            /\ \A c \in Requests : controllerPc[c] = "set" => controllerClosed[c])
    /\ [][endpointClosePc = "done" =>
            /\ idleFired' = idleFired
            /\ \A r \in Requests : reqPc'[r] = "holding" => reqPc[r] = "holding"]_vars

(***************************************************************************)
(* Properties of the Beam                                                  *)
(***************************************************************************)

\* C39: whatever sockets connect to a beam, and in whatever order they
\* connect, deliver data, end and fail: 'connected' is emitted at most once;
\* the open callback of the stream is invoked at most once, be it by the
\* first connection, by a failed listen or dial, or by destroy; the outbound
\* socket, once adopted, is never replaced, and neither is the inbound one;
\* and only chunks of the socket that was the first to deliver data are
\* pushed into the stream, that socket being the inbound one.
C39_SingleAdoption ==
    /\ [](/\ connectedEmits <= 1
          /\ Len(openResults) <= 1
          /\ inbound = firstData
          /\ \A s \in BeamSockets : pushed[s] > 0 => s = firstData)
    /\ [][/\ outbound # 0 => outbound' = outbound
          /\ inbound # 0 => inbound' = inbound]_vars

\* A listening beam that three sockets have connected to: the first one is
\* outbound, the second one delivered data first and is inbound, data of the
\* first and the third was dropped; the open callback was called with
\* success and the beam was destroyed afterwards.
C39_Witness ==
    /\ announce
    /\ handled = BeamSockets
    /\ outbound = 1
    /\ inbound = 2
    /\ pushed[2] = MaxChunks
    /\ delivered[1] > 0
    /\ delivered[3] > 0
    /\ pushed[1] = 0
    /\ pushed[3] = 0
    /\ connectedEmits = 1
    /\ openResults = <<"ok">>
    /\ beamDestroyed

====
